---------------------------- MODULE Spec2Model ----------------------------
(***************************************************************************)
(* ObJournal: an Obsidian plugin that shows the Markdown notes of a vault  *)
(* as a journal.  The module models                                        *)
(*   - the date extraction of utils.ts (extractDate and its helpers),      *)
(*   - the image extraction of utils.ts (extractImagesFromContent),        *)
(*   - the journal view (JournalView): scanning (loadEntries,              *)
(*     loadEntryMetadata), refreshing, rendering and paginated lazy        *)
(*     loading, with its guard flags and timers,                           *)
(*   - the debounced refresh on file-system events that the repository's   *)
(*     analysis of real-time updates describes (debouncedRefresh).         *)
(*                                                                         *)
(* Text is modelled as a sequence of tokens: a token is a maximal piece    *)
(* of text that one of the regular expressions of utils.ts matches (a      *)
(* date literal in one of the supported notations, an image link) or a     *)
(* piece of text none of them matches.  A date is a timestamp, an integer  *)
(* counted in TicksPerDay units per day; Null (-1) is JavaScript's null.   *)
(***************************************************************************)
EXTENDS Integers, Sequences, FiniteSets, TLC

\* ------------------------------------------------------------------------
\* Bounds of the model
\* ------------------------------------------------------------------------

\* longest file name / note body, in tokens
MaxTokens == 2

\* resolution of a timestamp: ticks per calendar day
TicksPerDay == 2

\* JavaScript's null, where a date (a timestamp >= 0) is expected
Null == 0 - 1

Min(S) == CHOOSE x \in S : \A y \in S : x <= y

Max(S) == CHOOSE x \in S : \A y \in S : x >= y

SeqsUpTo(S, n) == UNION {[1..k -> S] : k \in 0..n}

\* a token of a text: its notation k and, for a date literal, the day d
Tok(k, d) == [k |-> k, d |-> d]

FmNone == [k |-> "none", t |-> 0]

FmEmpty == [k |-> "empty", t |-> 0]

FmBad == [k |-> "bad", t |-> 0]

FmNum == [k |-> "num", t |-> 0]

FmStr(t) == [k |-> "str", t |-> t]

NoFrontmatter ==
    [date |-> FmNone, Date |-> FmNone, created |-> FmNone, created_time |-> FmNone]

\* ------------------------------------------------------------------------
\* utils.ts: dates
\* ------------------------------------------------------------------------

\* new Date(year, month - 1, day): local midnight of the day a literal names
LocalDate(d) == d * TicksPerDay

\* String.prototype.match with a non-global regular expression: the leftmost
\* occurrence of the notation k in the text, or null
FirstMatch(text, k) ==
    LET at == {i \in DOMAIN text : text[i].k = k}
    IN  IF at = {} THEN Null ELSE text[Min(at)].d

\* a mutant of parseDateFromFileName: the Chinese notation is tried first
parseDateFromFileName_cnFirst(fileName) ==
    IF FirstMatch(fileName, "cn") # Null
    THEN LocalDate(FirstMatch(fileName, "cn"))
    ELSE IF FirstMatch(fileName, "iso") # Null
    THEN LocalDate(FirstMatch(fileName, "iso"))
    ELSE IF FirstMatch(fileName, "dot") # Null
    THEN LocalDate(FirstMatch(fileName, "dot"))
    ELSE Null

parseDateFromFileName(fileName) ==
    IF FirstMatch(fileName, "iso") # Null
    THEN LocalDate(FirstMatch(fileName, "iso"))
    ELSE IF FirstMatch(fileName, "cn") # Null
    THEN LocalDate(FirstMatch(fileName, "cn"))
    ELSE IF FirstMatch(fileName, "dot") # Null
    THEN LocalDate(FirstMatch(fileName, "dot"))
    ELSE Null

parseDateFromContent(content) ==
    IF FirstMatch(content, "cn") # Null
    THEN LocalDate(FirstMatch(content, "cn"))
    ELSE IF FirstMatch(content, "iso") # Null
    THEN LocalDate(FirstMatch(content, "iso"))
    ELSE IF FirstMatch(content, "slash") # Null
    THEN LocalDate(FirstMatch(content, "slash"))
    ELSE Null

\* A frontmatter value v is [k, t]:
\*   k = "none"   the field is absent (undefined)
\*   k = "empty"  the empty string
\*   k = "bad"    a string that new Date() cannot parse (NaN)
\*   k = "str"    a string that new Date() parses to the timestamp t
\*   k = "num"    a non-zero number
\* JavaScript truthiness of a frontmatter value
Truthy(v) == v.k \in {"bad", "str", "num"}

parseDate(dateValue) ==
    IF ~Truthy(dateValue) THEN Null
    ELSE IF dateValue.k = "str" THEN dateValue.t
    ELSE Null

\* the frontmatter fields extractDate reads, in the order it reads them
dateFields == <<"date", "Date", "created", "created_time">>

\* the loop over dateFields from the position i on
RECURSIVE FrontmatterDateFrom(_, _)
FrontmatterDateFrom(fm, i) ==
    IF i > Len(dateFields) THEN Null
    ELSE IF Truthy(fm[dateFields[i]]) /\ parseDate(fm[dateFields[i]]) # Null
    THEN parseDate(fm[dateFields[i]])
    ELSE FrontmatterDateFrom(fm, i + 1)

extractDate(file, content) ==
    IF parseDateFromFileName(file.basename) # Null
    THEN parseDateFromFileName(file.basename)
    ELSE IF file.hasFrontmatter /\ FrontmatterDateFrom(file.frontmatter, 1) # Null
    THEN FrontmatterDateFrom(file.frontmatter, 1)
    ELSE IF parseDateFromContent(content) # Null
    THEN parseDateFromContent(content)
    ELSE file.ctime

\* ------------------------------------------------------------------------
\* The vault of the view model
\* ------------------------------------------------------------------------

\* most Markdown files the vault holds
MaxFiles == 21

\* the createJournalCard call of one loadMoreEntries that may throw: none (0),
\* the first, ..., the MaxThrowAt-th
MaxThrowAt == 1

\* JournalView.itemsPerPage (PAGINATION.ITEMS_PER_PAGE)
ITEMS_PER_PAGE == 20

\* batchSize of loadEntries (PAGINATION.BATCH_SIZE)
BATCH_SIZE == 10

\* The Markdown file with the number id.  The vault holds the files
\* 1..vaultN; seven kinds of file alternate:
\*   1  a date in the file name, no frontmatter
\*   2  a date in the file name and a frontmatter 'date' naming another day
\*   3  a frontmatter 'date' only
\*   4  a date in the body only (Chinese notation)
\*   5  no date anywhere
\*   6  a date in the body only, after the first 2000 characters
\*   0  a frontmatter 'date' that does not parse and a 'created' that does
\* A frontmatter string parses to UTC midnight, one tick after local
\* midnight; files are created on the days 40, 41, ..., two a day
NoteOf(id) ==
    LET kind == id % 7
    IN  [basename |-> IF kind \in {1, 2} THEN <<Tok("txt", 0), Tok("iso", id)>>
                      ELSE <<Tok("txt", 0)>>,
         hasFrontmatter |-> kind \in {2, 3, 0},
         frontmatter |->
            [date |-> IF kind = 2 THEN FmStr(LocalDate(id + 7) + 1)
                      ELSE IF kind = 3 THEN FmStr(LocalDate(id) + 1)
                      ELSE IF kind = 0 THEN FmBad
                      ELSE FmNone,
             Date |-> FmNone,
             created |-> IF kind = 0 THEN FmStr(LocalDate(id) + 1) ELSE FmNone,
             created_time |-> FmNone],
         body |-> IF kind = 4 THEN <<Tok("txt", 0), Tok("cn", id)>>
                  ELSE IF kind = 6 THEN <<Tok("long", 0), Tok("iso", id)>>
                  ELSE <<Tok("txt", 0)>>,
         embeds |-> id % 2 = 0,
         ctime |-> LocalDate(40 + id \div 2) + 1]

\* the files of the full vault
Vault == [id \in 1..MaxFiles |-> NoteOf(id)]

FileOf(id) == Vault[id]

\* the sizes the vault takes: two notes, full
VaultSizes == {2, MaxFiles}

\* files whose read may fail (a file deleted or locked during the scan)
Flaky == {1, 11}

\* ------------------------------------------------------------------------
\* JournalView: loadEntryMetadata
\* ------------------------------------------------------------------------

\* fullContent.substring(0, 2000): a "long" token is a text of 2000
\* characters or more, and nothing after it is kept
Truncate(body) ==
    LET long == {i \in DOMAIN body : body[i].k = "long"}
    IN  IF long = {} THEN body ELSE SubSeq(body, 1, Min(long))

\* metadata?.frontmatter?.date parses: loadEntryMetadataFromCache is taken
\* and the file is not read
FastPath(file) ==
    /\ file.hasFrontmatter
    /\ Truthy(file.frontmatter.date)
    /\ parseDate(file.frontmatter.date) # Null

\* null where a JournalEntry is expected
NoEntry == [file |-> 0, date |-> Null]

\* a rejected promise where a JournalEntry is expected
Rejected == [file |-> 0 - 1, date |-> Null]

\* a mutant of loadEntryMetadata: a file without date information (only a
\* creation time) is dropped
loadEntryMetadata_dropUndated(id, file, read) ==
    IF FastPath(file)
    THEN [file |-> id, date |-> parseDate(file.frontmatter.date)]
    ELSE IF read = "fail1" THEN NoEntry
    ELSE LET date == extractDate(file, Truncate(file.body))
         IN  IF date = file.ctime THEN NoEntry
             ELSE IF ~file.embeds /\ read = "fail2" THEN Rejected
             ELSE [file |-> id, date |-> date]

\* loadEntryMetadata(file): the entry, NoEntry when the file is dropped, or
\* Rejected.  read is what the vault does with the reads of this file:
\* "ok", "fail1" (the first read throws: caught inside, null is returned)
\* or "fail2" (the read of the full content, made only when the metadata
\* cache lists no image, throws: the promise rejects).
loadEntryMetadata(id, file, read) ==
    IF FastPath(file)
    THEN [file |-> id, date |-> parseDate(file.frontmatter.date)]
    ELSE IF read = "fail1" THEN NoEntry
    ELSE LET date == extractDate(file, Truncate(file.body))
         IN  IF date = Null THEN NoEntry
             ELSE IF ~file.embeds /\ read = "fail2" THEN Rejected
             ELSE [file |-> id, date |-> date]

\* ------------------------------------------------------------------------
\* JournalView: loadEntries
\* ------------------------------------------------------------------------

\* a mutant of EntryBefore: the comparator looks at the dates only
EntryBefore_dateOnly(a, b) == a.date > b.date

\* the comparator of this.entries.sort: a sorts before b.  Newest date
\* first, then newest creation time, then file path descending (the path
\* of file id is its number)
EntryBefore(a, b) ==
    IF a.date # b.date THEN a.date > b.date
    ELSE IF FileOf(a.file).ctime # FileOf(b.file).ctime
    THEN FileOf(a.file).ctime > FileOf(b.file).ctime
    ELSE a.file > b.file

\* this.entries.sort(...)
SortEntries(seq) == SortSeq(seq, EntryBefore)

Min2(a, b) == IF a < b THEN a ELSE b

\* what the vault does with the reads of file f when the files in bad
\* cannot be read: the first read of file 1 fails, and of any other file
\* the second
ReadOf(f, bad) ==
    IF f \notin bad THEN "ok" ELSE IF f = 1 THEN "fail1" ELSE "fail2"

\* a mutant of Caught: the rejection is passed on
Caught_rethrow(e) == e

\* this.loadEntryMetadata(file).catch(error => { ...; return null; })
Caught(e) == IF e = Rejected THEN NoEntry ELSE e

\* this.loadEntryMetadata(file) for each file of the vault and each outcome
\* of its reads
Loaded ==
    [id \in 1..MaxFiles |->
        [read \in {"ok", "fail1", "fail2"} |-> loadEntryMetadata(id, FileOf(id), read)]]

\* the promises of the batch files[from .. to], settled
BatchSettled(files, from, to, bad) ==
    [k \in 1..(to - from + 1) |->
        Caught(Loaded[files[from + k - 1]][ReadOf(files[from + k - 1], bad)])]

\* await Promise.all(batch) throws
BatchRejects(settled) == \E k \in DOMAIN settled : settled[k] = Rejected

IsEntry(e) == e # NoEntry

\* results.filter(e => e !== null)
BatchResults(settled) == SelectSeq(settled, IsEntry)

\* some promise of the batch that starts after files[i] waits for a read
BatchPending(files, i) ==
    \E j \in (i + 1)..Min2(i + BATCH_SIZE, Len(files)) : ~FastPath(FileOf(files[j]))

\* this.entries after the batches from files[i+1] on that need no read have
\* been pushed: the awaits of loadEntries resume in the same task as long
\* as no promise of the awaited batch waits for the vault.  done: the loop
\* has ended and the entries are sorted; otherwise the call is suspended at
\* the await of the batch after files[idx].
RECURSIVE ScanRun(_, _, _)
ScanRun(ents, files, i) ==
    IF i >= Len(files)
    THEN [done |-> TRUE, entries |-> SortEntries(ents), idx |-> i]
    ELSE IF BatchPending(files, i)
    THEN [done |-> FALSE, entries |-> ents, idx |-> i]
    ELSE ScanRun(ents \o BatchResults(BatchSettled(files, i + 1,
                                                   Min2(i + BATCH_SIZE, Len(files)), {})),
                 files, i + BATCH_SIZE)

\* app.vault.getMarkdownFiles(): the files 1..n in the vault's order
Listing(n) == [i \in 1..n |-> i]

\* the callers of loadEntries: refresh(), the click handler of the
\* start-scan button, the restore timer of setState
Callers == {"refresh", "button", "restore"}

NoScan == [files |-> <<>>, idx |-> 0, bad |-> {}, prevLen |-> 0]

\* ------------------------------------------------------------------------
\* JournalView: rendering and lazy loading
\* ------------------------------------------------------------------------

\* days of a month of the model's calendar
DaysPerMonth == 10

\* the month of groupByMonth's monthKey
MonthOf(date) == date \div (TicksPerDay * DaysPerMonth)

\* the indices startIndex .. endIndex - 1 that are not rendered yet, in the
\* order in which renderEntriesBatch visits them: groupByMonth, the month
\* keys sorted newest first, the entries of a month in the order of the
\* batch
RenderOrder(ents, startIndex, endIndex, rendered) ==
    LET NotRendered(i) == i \notin rendered
        MonthFirst(a, b) ==
            \/ MonthOf(ents[a + 1].date) > MonthOf(ents[b + 1].date)
            \/ /\ MonthOf(ents[a + 1].date) = MonthOf(ents[b + 1].date)
               /\ a < b
    IN  SortSeq(SelectSeq([k \in 1..(endIndex - startIndex) |-> startIndex + k - 1],
                          NotRendered),
                MonthFirst)

SeqRange(seq) == {seq[i] : i \in DOMAIN seq}

\* In the operators below s is the state of the view (its fields, what is
\* on screen, its pending timers and the position of each caller of
\* loadEntries); an operator gives the state after the code it models.
\*   screen            what contentEl shows: "blank", "empty" (the start
\*                     button), "skeleton", "loading", "noentries", "list"
\*   hasList           this.listContainer is set
\*   trigger           the load-more trigger of this.listContainer: "none",
\*                     "pending" (created, not observed yet), "observed"
\*   loadMoreObserver  this.loadMoreObserver is set
\*   lmTimer           the 100 ms timer of the observer callback is pending
\*   restoreTimer      the 100 ms timer of setState is pending
\*   openTimer         the 500 ms timer of onOpen is pending
\*   pc[c]             caller c: "idle", "scan" (inside loadEntries, at the
\*                     await of a batch), "wait1", "wait2" (the button
\*                     handler at its two delays)
\*   scan[c]           the loadEntries call of caller c: its files, the
\*                     number of files handled, the files it failed to
\*                     read, the number of entries it found when it started
\* and, of the step just taken (history, reset by every step):
\*   loadMore          its loadMoreEntries call: how it ended, the page and
\*                     entry count it found, the indices it rendered, the
\*                     page it left
\*   lastScan          the loadEntries call it ended ("done": normally,
\*                     "threw": in the catch): its files, the files it
\*                     failed to read, the number of entries it found in
\*                     the view when it started
\*   skipped           the calls that returned at their guard

\* a mutant of LoadMoreFinally: the flag is left as it is
LoadMoreFinally_none(s) == s

\* the finally of loadMoreEntries
LoadMoreFinally(s) == [s EXCEPT !.isLoadingMore = FALSE]

\* a mutant of NextPage: the page stays
NextPage_stay(s) == s

\* this.currentPage++ of loadMoreEntries
NextPage(s) == [s EXCEPT !.currentPage = @ + 1]

\* loadMoreEntries(container).  createJournalCard waits for nothing, so the
\* awaits of renderEntriesBatch resume in the same task and the call runs
\* to its end before any other task.  throwAt > 0: the throwAt-th
\* createJournalCard of this call throws.
loadMoreEntries(s, throwAt) ==
    LET startIndex == s.currentPage * ITEMS_PER_PAGE
        endIndex == Min2(startIndex + ITEMS_PER_PAGE, Len(s.entries))
        \* the entries of the batch with !this.renderedEntries.has(entryIndex)
        order == RenderOrder(s.entries, startIndex, endIndex, s.renderedEntries)
        throws == throwAt > 0 /\ throwAt <= Len(order)
        created == IF throws THEN SeqRange(SubSeq(order, 1, throwAt - 1))
                   ELSE SeqRange(order)
        call == [page |-> s.currentPage, len |-> Len(s.entries)]
        \* from this.isLoadingMore = true to the exception or the new trigger
        body == [s EXCEPT !.isLoadingMore = TRUE,
                          !.renderedEntries = @ \cup created,
                          !.trigger = IF ~throws /\ endIndex < Len(s.entries)
                                      THEN "pending" ELSE "none"]
        after == LoadMoreFinally(IF throws THEN body ELSE NextPage(body))
    IN  IF s.isLoadingMore
        THEN [s EXCEPT !.loadMore = call @@ [kind |-> "skip", rendered |-> {},
                                             pageAfter |-> s.currentPage]]
        ELSE IF startIndex >= Len(s.entries)
        THEN [s EXCEPT !.trigger = "none",
                       !.loadMore = call @@ [kind |-> "end", rendered |-> {},
                                             pageAfter |-> s.currentPage]]
        ELSE [after EXCEPT !.loadMore =
                 call @@ [kind |-> IF throws THEN "throw" ELSE "page",
                          rendered |-> created,
                          pageAfter |-> after.currentPage]]

\* renderListPaginated(container): reset the paging, empty the new list
\* container, load the first page (its rejection is caught and logged)
renderListPaginated(s, throwAt) ==
    loadMoreEntries([s EXCEPT !.currentPage = 0,
                              !.renderedEntries = {},
                              !.isLoadingMore = FALSE,
                              !.trigger = "none"], throwAt)

\* setupLazyLoading: a new observer replaces the old one; its timer
\* observes the trigger of the new list (the step ObserveTrigger)
setupLazyLoading(s) == [s EXCEPT !.loadMoreObserver = TRUE]

\* render() / renderToContainer.  rThrows: an exception after
\* container.empty(), before the list is built.
render(s, rThrows, throwAt) ==
    IF rThrows THEN [s EXCEPT !.screen = "blank"]
    ELSE IF s.isLoading THEN [s EXCEPT !.screen = "loading"]
    ELSE IF Len(s.entries) = 0 THEN [s EXCEPT !.screen = "noentries"]
    ELSE setupLazyLoading(
             renderListPaginated([s EXCEPT !.screen = "list", !.hasList = TRUE], throwAt))

\* saveState(): hands getState() to leaf.setViewState inside a try/catch;
\* stateRestored is cleared for the call and set back after it.  The
\* host's setState call is the step SetState.
saveState(s) == s

\* ------------------------------------------------------------------------
\* JournalView: loadEntries, refresh and their callers
\* ------------------------------------------------------------------------

\* a mutant of LoadEntriesGuard: loadEntries without its isLoading guard
LoadEntriesGuard_none(s) == FALSE

\* if (this.isLoading) return;
LoadEntriesGuard(s) == s.isLoading

\* a mutant of ResetEntries: the entries of the earlier scan are kept
ResetEntries_keep(s) == [s EXCEPT !.renderedEntries = {}, !.currentPage = 0]

\* this.entries = []; this.renderedEntries.clear(); this.currentPage = 0;
ResetEntries(s) == [s EXCEPT !.entries = <<>>, !.renderedEntries = {}, !.currentPage = 0]

\* the catch and the finally of loadEntries
LoadEntriesFinally(s, threw) == [s EXCEPT !.isLoading = FALSE]

\* loadEntries of c leaves through its catch
ScanThrows(s, c, files, bad, prevLen) ==
    [LoadEntriesFinally(s, TRUE)
        EXCEPT !.scan[c] = NoScan,
               !.pc[c] = "idle",
               !.lastScan = [ended |-> "threw", files |-> files, bad |-> bad,
                             prevLen |-> prevLen]]

\* loadEntries from the await of a batch on: run is what ScanRun gave
ScanResume(s, c, files, bad, run, prevLen) ==
    IF run.done
    THEN [LoadEntriesFinally([s EXCEPT !.entries = run.entries], FALSE)
              EXCEPT !.scan[c] = NoScan,
                     !.pc[c] = "idle",
                     !.lastScan = [ended |-> "done", files |-> files, bad |-> bad,
                                   prevLen |-> prevLen]]
    ELSE [s EXCEPT !.entries = run.entries,
                   !.scan[c] = [files |-> files, idx |-> run.idx, bad |-> bad,
                                prevLen |-> prevLen],
                   !.pc[c] = "scan"]

\* loadEntries() called by c, up to its first suspension or its end.
\* files: what the vault lists; listThrows: the listing of the files throws.
loadEntries(s, c, files, listThrows) ==
    IF LoadEntriesGuard(s) THEN [s EXCEPT !.skipped = @ \cup {"loadEntries"}]
    ELSE IF listThrows
    THEN ScanThrows([s EXCEPT !.isLoading = TRUE], c, <<>>, {}, Len(s.entries))
    ELSE LET s0 == ResetEntries([s EXCEPT !.isLoading = TRUE])
         IN  ScanResume(s0, c, files, {}, ScanRun(s0.entries, files, 0), Len(s.entries))

\* loadEntries of c resumed when the reads of the awaited batch are over;
\* bad: the files of the batch that the vault failed to read
loadEntriesStep(s, c, bad) ==
    LET sc == s.scan[c]
        to == Min2(sc.idx + BATCH_SIZE, Len(sc.files))
        settled == BatchSettled(sc.files, sc.idx + 1, to, bad)
    IN  IF BatchRejects(settled)
        THEN ScanThrows(s, c, sc.files, sc.bad \cup bad, sc.prevLen)
        ELSE ScanResume(s, c, sc.files, sc.bad \cup bad,
                        ScanRun(s.entries \o BatchResults(settled), sc.files,
                                sc.idx + BATCH_SIZE),
                        sc.prevLen)

\* the finally of refresh
RefreshFinally(s, rThrows) == [s EXCEPT !.isRefreshing = FALSE]

\* what caller c does when its loadEntries call has returned
AfterLoad(s, c, rThrows, throwAt) ==
    CASE c = "refresh" ->
            \* this.render(); this.saveState(); finally
            RefreshFinally(IF rThrows THEN render(s, TRUE, throwAt)
                           ELSE saveState(render(s, FALSE, throwAt)), rThrows)
      [] c = "button" ->
            \* await new Promise(resolve => setTimeout(resolve, RENDER_DELAY))
            [s EXCEPT !.pc[c] = "wait2"]
      [] c = "restore" ->
            \* this.render()
            render(s, rThrows, throwAt)

\* caller c calls loadEntries and goes on until it is suspended
CallLoad(s, c, files, listThrows, rThrows, throwAt) ==
    LET s1 == loadEntries(s, c, files, listThrows)
        suspended == ~LoadEntriesGuard(s) /\ ~listThrows /\ s1.pc[c] = "scan"
    IN  IF suspended THEN s1 ELSE AfterLoad(s1, c, rThrows, throwAt)

\* if (this.isRefreshing) return;
RefreshGuard(s) == s.isRefreshing

\* refresh()
refresh(s, files, listThrows, rThrows, throwAt) ==
    IF RefreshGuard(s) THEN [s EXCEPT !.skipped = @ \cup {"refresh"}]
    ELSE CallLoad([s EXCEPT !.isRefreshing = TRUE], "refresh",
                  files, listThrows, rThrows, throwAt)

\* renderEmpty(): the start-scan button
renderEmpty(s) == [s EXCEPT !.screen = "empty"]

\* setState(state): the restore logic, once per view
setState(s, hasLoaded) ==
    IF s.stateRestored THEN s
    ELSE IF hasLoaded
    THEN [s EXCEPT !.stateRestored = TRUE, !.screen = "blank", !.restoreTimer = TRUE]
    ELSE renderEmpty([s EXCEPT !.stateRestored = TRUE])

\* ------------------------------------------------------------------------
\* Files of the date check: every combination of a file name, a
\* frontmatter and a body.  Each notation and each frontmatter field names
\* a date of its own, so that the date returned shows where it came from.
\* ------------------------------------------------------------------------

NameTokens == {Tok("iso", 1), Tok("cn", 2), Tok("dot", 3), Tok("txt", 0)}

BodyTokens == {Tok("cn", 4), Tok("iso", 5), Tok("slash", 6)}

Frontmatters ==
    [date : {FmNone, FmEmpty, FmBad, FmNum, FmStr(101)},
     Date : {FmNone, FmStr(102)},
     created : {FmNone, FmBad, FmStr(103)},
     created_time : {FmNone, FmStr(104)}]

DateFiles(maxLen) ==
    {[basename |-> n, hasFrontmatter |-> fm # NoFrontmatter, frontmatter |-> fm,
      body |-> b, embeds |-> FALSE, ctime |-> 200] :
        n \in SeqsUpTo(NameTokens, maxLen),
        fm \in Frontmatters,
        b \in SeqsUpTo(BodyTokens, maxLen)}

VARIABLES
    xFile,      \* date check: the file handed to extractDate
    xOut,       \* date check: what extractDate returned
    xPhase      \* date check: "in" before the call, "out" after it, "off"

VARIABLES
    vaultN,             \* the vault holds the Markdown files 1..vaultN
    entries,            \* JournalView.entries: <<[file, date], ...>>
    isLoading,          \* JournalView.isLoading
    isRefreshing,       \* JournalView.isRefreshing
    isLoadingMore,      \* JournalView.isLoadingMore
    currentPage,        \* JournalView.currentPage
    renderedEntries,    \* JournalView.renderedEntries
    stateRestored,      \* JournalView.stateRestored
    screen,             \* what contentEl shows
    hasList,            \* JournalView.listContainer is set
    trigger,            \* the load-more trigger of listContainer
    loadMoreObserver,   \* JournalView.loadMoreObserver is set
    lmTimer,            \* the timer of the observer callback is pending
    restoreTimer,       \* the timer of setState is pending
    openTimer,          \* the timer of onOpen is pending
    pc,                 \* where each caller of loadEntries stands
    scan,               \* the loadEntries call of each caller
    loadMore,           \* history: the loadMoreEntries call of the last step
    lastScan,           \* history: the loadEntries call the last step ended
    skipped             \* history: the calls the last step's guards turned away

VARIABLES
    imContent,  \* image check: the content handed to extractImagesFromContent
    imDir,      \* image check: file.parent.path of the note, as segments
    imOut,      \* image check: the ImageInfo list returned
    imPhase     \* image check: "in" before the call, "out" after it, "off"

VARIABLES
    now,                    \* debounce: the clock, in ms
    timers,                 \* debounce: the pending timeouts [id, due]
    refreshDebounceTimer,   \* debounce: the timer id the view holds, or Null
    nextTimerId,            \* debounce: the id the next setTimeout returns
    lastEvent,              \* debounce: the time of the last file-system event
    events,                 \* debounce: the number of events so far
    burst,                  \* debounce: the events of the burst going on
    refreshCalls,           \* debounce: the refresh() calls since the last event
    refreshGap,             \* debounce: at the last refresh() call, the time
                            \*           since the last event
    dbPhase                 \* debounce: "on" or "off"

VARIABLES
    imageLimit,     \* card check: plugin.settings.imageLimit
    cardImages,     \* card check: entry.images of the entry of the card
    displayImages,  \* card check: the images the card shows
    moreCount,      \* card check: the N of the "+N" overlay, 0 without one
    cardPhase       \* card check: "new" before the card is made, "shown", "off"

VARIABLES
    scrollTop,          \* click check: scrollContainer.scrollTop
    lastScrollTop,      \* click check: scrollContainer._lastScrollTop, Null
                        \*              while undefined
    scrolled,           \* click check: the container was scrolled since the
                        \*              list was rendered
    clickResult,        \* click check: "opened" or "swallowed" for the last
                        \*              step's click, "none" without one
    clickedCard,        \* click check: the entry of the card the last step
                        \*              clicked, 0 without a click
    openedFile,         \* click check: the entry whose file the last step
                        \*              handed to openLinkText, 0 without one
    clickPhase          \* click check: "on" or "off"

VARIABLES
    fFile,      \* field check: the file handed to loadEntryMetadata
    fField,     \* field check: folderDateFields[targetFolderPath], "" when
                \*              the folder uses the default fields
    fOut,       \* field check: the date of the entry returned
    fPhase      \* field check: "in" before the call, "out" after it, "off"

VARIABLES
    scFiles,            \* scope check: the files of the vault, as nodes
    scTarget,           \* scope check: JournalView.targetFolderPath, as
                        \*              segments; <<>> for null and for ''
    scListed,           \* scope check: the files loadEntries lists
    scPhase             \* scope check: "in" before the call, "out", "off"

VARIABLES
    stDates,    \* stats check: the dates of JournalView.entries
    stToday,    \* stats check: the day of new Date()
    stShown,    \* stats check: the numbers the header shows
    stPhase     \* stats check: "in" before renderStats, "out", "off"

VARIABLES
    targetFolderPath,   \* folder check: JournalView.targetFolderPath, "" for
                        \*               null
    refreshRequested    \* folder check: refresh() was called since
                        \*               targetFolderPath last changed

VARIABLES
    listCards   \* list check: the number of cards of each file in the
                \*             element JournalView.listContainer refers to

VARIABLES
    soEntries,  \* sort check: this.entries before the sort, in the order
                \*             the vault listed the files
    soOut,      \* sort check: this.entries after the sort
    soPhase     \* sort check: "in" before the sort, "out" after it, "off"

VARIABLES
    rsStateRestored,    \* restore check: JournalView.stateRestored
    rsTargetFolderPath, \* restore check: JournalView.targetFolderPath,
                        \*                "null" for null
    rsEntries,          \* restore check: this.entries.length
    rsScreen,           \* restore check: what contentEl shows
    rsReloadTimer,      \* restore check: the 100 ms timer of setState is
                        \*                pending
    rsViewState,        \* restore check: the state the leaf holds for the view
    rsRestoredOnce,     \* restore check: a setState call has set stateRestored
    rsCall,             \* restore check: the setState call of the last step
    rsPhase             \* restore check: "on" or "off"

VARIABLES
    quRefreshes,    \* quiescence check: the refresh() calls the user made
    quScans,        \* quiescence check: the loadEntries calls made
    quTimers,       \* quiescence check: the 100 ms timers of setState pending
    quPhase         \* quiescence check: "on" or "off"

VARIABLES
    baFiles,    \* batch check: the number of files loadEntries listed
    baInFlight, \* batch check: the files whose loadEntryMetadata call has
                \*              started and has not finished
    baIndex,    \* batch check: i of the batch loop of loadEntries
    baPhase     \* batch check: "idle", "await" (at await Promise.all),
                \*              "done", "off"

VARIABLES
    listSections    \* month check: the month sections of the element
                    \*              JournalView.listContainer refers to, each
                    \*              with its data-month and the entries of its
                    \*              cards, in the order of the document

VARIABLES
    cfFolder,   \* view-file check: the name of the folder, as pieces of text
    cfNotes,    \* view-file check: the basenames of the Markdown files of
                \*                  the folder, as pieces of text
    cfEntries,  \* view-file check: the basenames of the files the scan made
                \*                  entries of
    cfPhase     \* view-file check: "menu", "created", "scanned", "off"

VARIABLES
    nnFiles,        \* new-note check: the paths of the target folder at which
                    \*                 a file exists
    nnNow,          \* new-note check: the clock, a day and a minute of it
    nnToday,        \* new-note check: today of the createNewNote call running
    nnFinalPath,    \* new-note check: finalPath of that call
    nnCounter,      \* new-note check: counter of that call
    nnCreated,      \* new-note check: "none", or how vault.create ended
    nnPhase         \* new-note check: "idle", "exists" (at the await of the
                    \*                 loop), "create", "off"

VARIABLES
    clClosed,       \* close check: onClose of the view has run
    clTimers,       \* close check: the timers of the view that are pending
    clObserver,     \* close check: JournalView.loadMoreObserver is not null
    clList,         \* close check: JournalView.listContainer is set
    clPluginView,   \* close check: JournalPlugin.view is this view
    clRan,          \* close check: what the last step called on the view
    clPhase         \* close check: "on" or "off"

VARIABLES
    lfLeaves,   \* leaf check: the view type of each leaf of the workspace,
                \*             "none" for a leaf that does not exist
    lfCalls     \* leaf check: for each caller of createOrGetJournalViewLeaf
                \*             where it is ("idle", "await", "done") and
                \*             its newLeaf (0: none)

VARIABLES
    deVault,    \* delete check: the files of the vault
    deEntries,  \* delete check: the files of JournalView.entries, in order
    deRendered, \* delete check: JournalView.renderedEntries
    deCards,    \* delete check: the files with a card in the list
    deLast,     \* delete check: how the last deleteEntry call ended, its
                \*               file, and whether the call changed the
                \*               vault, the cards, entries or renderedEntries
    dePhase     \* delete check: "on" or "off"

dateVars == <<xFile, xOut, xPhase>>

deleteVars == <<deVault, deEntries, deRendered, deCards, deLast, dePhase>>

leafVars == <<lfLeaves, lfCalls>>

closeVars == <<clClosed, clTimers, clObserver, clList, clPluginView, clRan, clPhase>>

noteVars == <<nnFiles, nnNow, nnToday, nnFinalPath, nnCounter, nnCreated, nnPhase>>

configVars == <<cfFolder, cfNotes, cfEntries, cfPhase>>

monthsVars == <<listSections>>

batchVars == <<baFiles, baInFlight, baIndex, baPhase>>

quVars == <<quRefreshes, quScans, quTimers, quPhase>>

restoreVars ==
    <<rsStateRestored, rsTargetFolderPath, rsEntries, rsScreen, rsReloadTimer,
      rsViewState, rsRestoredOnce, rsCall, rsPhase>>

sortVars == <<soEntries, soOut, soPhase>>

listVars == <<listCards>>

folderVars == <<targetFolderPath, refreshRequested>>

statsVars == <<stDates, stToday, stShown, stPhase>>

scopeVars == <<scFiles, scTarget, scListed, scPhase>>

fieldVars == <<fFile, fField, fOut, fPhase>>

cardVars == <<imageLimit, cardImages, displayImages, moreCount, cardPhase>>

clickVars ==
    <<scrollTop, lastScrollTop, scrolled, clickResult, clickedCard, openedFile, clickPhase>>

\* the variables of the card check and of the checks after it
moreVars == <<cardVars, clickVars, fieldVars, scopeVars, statsVars, folderVars, listVars, sortVars, restoreVars, quVars, batchVars, monthsVars, configVars, noteVars, closeVars, leafVars, deleteVars>>

imVars == <<imContent, imDir, imOut, imPhase>>

dbVars ==
    <<now, timers, refreshDebounceTimer, nextTimerId, lastEvent, events, burst,
      refreshCalls, refreshGap, dbPhase>>

\* the variables of the checks of the pure functions and of the debounce
sideVars == <<dateVars, imVars, dbVars, moreVars>>

viewVars ==
    <<vaultN, entries, isLoading, isRefreshing, isLoadingMore, currentPage,
      renderedEntries, stateRestored, screen, hasList, trigger, loadMoreObserver,
      lmTimer, restoreTimer, openTimer, pc, scan, loadMore, lastScan, skipped>>

vars == <<sideVars, viewVars>>

\* no date check
NoDateCheck ==
    /\ xFile = [basename |-> <<>>, hasFrontmatter |-> FALSE, frontmatter |-> NoFrontmatter,
                body |-> <<>>, embeds |-> FALSE, ctime |-> 0]
    /\ xOut = Null
    /\ xPhase = "off"

\* no image check
NoImageCheck ==
    /\ imContent = <<>>
    /\ imDir = <<>>
    /\ imOut = <<>>
    /\ imPhase = "off"

\* no file-system watcher
NoDebounce ==
    /\ now = 0
    /\ timers = {}
    /\ refreshDebounceTimer = Null
    /\ nextTimerId = 1
    /\ lastEvent = Null
    /\ events = 0
    /\ burst = 0
    /\ refreshCalls = 0
    /\ refreshGap = Null
    /\ dbPhase = "off"

\* no card check
NoCard ==
    /\ imageLimit = 0
    /\ cardImages = <<>>
    /\ displayImages = <<>>
    /\ moreCount = 0
    /\ cardPhase = "off"

\* no click check
NoClick ==
    /\ scrollTop = 0
    /\ lastScrollTop = Null
    /\ scrolled = FALSE
    /\ clickResult = "none"
    /\ clickedCard = 0
    /\ openedFile = 0
    /\ clickPhase = "off"

\* no field check
NoFieldCheck ==
    /\ fFile = [basename |-> <<>>, hasFrontmatter |-> FALSE, frontmatter |-> NoFrontmatter,
                body |-> <<>>, embeds |-> FALSE, ctime |-> 0]
    /\ fField = ""
    /\ fOut = Null
    /\ fPhase = "off"

\* no scope check
NoScopeCheck ==
    /\ scFiles = {}
    /\ scTarget = <<>>
    /\ scListed = <<>>
    /\ scPhase = "off"

NoLoadMore == [kind |-> "none", page |-> 0, len |-> 0, rendered |-> {}, pageAfter |-> 0]

NoLastScan == [ended |-> "none", files |-> <<>>, bad |-> {}, prevLen |-> 0]

\* the state of the view as the operators above take it, at the start of
\* a step
View ==
    [entries |-> entries, isLoading |-> isLoading, isRefreshing |-> isRefreshing,
     isLoadingMore |-> isLoadingMore, currentPage |-> currentPage,
     renderedEntries |-> renderedEntries, stateRestored |-> stateRestored,
     screen |-> screen, hasList |-> hasList, trigger |-> trigger,
     loadMoreObserver |-> loadMoreObserver, lmTimer |-> lmTimer,
     restoreTimer |-> restoreTimer, openTimer |-> openTimer, pc |-> pc, scan |-> scan,
     loadMore |-> NoLoadMore, lastScan |-> NoLastScan, skipped |-> {}]

\* the view becomes s
Becomes(s) ==
    /\ entries' = s.entries
    /\ isLoading' = s.isLoading
    /\ isRefreshing' = s.isRefreshing
    /\ isLoadingMore' = s.isLoadingMore
    /\ currentPage' = s.currentPage
    /\ renderedEntries' = s.renderedEntries
    /\ stateRestored' = s.stateRestored
    /\ screen' = s.screen
    /\ hasList' = s.hasList
    /\ trigger' = s.trigger
    /\ loadMoreObserver' = s.loadMoreObserver
    /\ lmTimer' = s.lmTimer
    /\ restoreTimer' = s.restoreTimer
    /\ openTimer' = s.openTimer
    /\ pc' = s.pc
    /\ scan' = s.scan
    /\ loadMore' = s.loadMore
    /\ lastScan' = s.lastScan
    /\ skipped' = s.skipped

\* the view after its constructor and onOpen(), which starts the timer that
\* shows the start button unless setState comes first
InitView ==
    /\ entries = <<>>
    /\ isLoading = FALSE
    /\ isRefreshing = FALSE
    /\ isLoadingMore = FALSE
    /\ currentPage = 0
    /\ renderedEntries = {}
    /\ stateRestored = FALSE
    /\ screen = "blank"
    /\ hasList = FALSE
    /\ trigger = "none"
    /\ loadMoreObserver = FALSE
    /\ lmTimer = FALSE
    /\ restoreTimer = FALSE
    /\ openTimer = TRUE
    /\ pc = [c \in Callers |-> "idle"]
    /\ scan = [c \in Callers |-> NoScan]
    /\ loadMore = NoLoadMore
    /\ lastScan = NoLastScan
    /\ skipped = {}

\* the header is not rendered
NoStatsShown == [consecutiveDays |-> 0, totalDays |-> 0]

\* no stats check
NoStats ==
    /\ stDates = <<>>
    /\ stToday = 0
    /\ stShown = NoStatsShown
    /\ stPhase = "off"

\* no folder check: the view shows the whole vault
NoFolder ==
    /\ targetFolderPath = ""
    /\ refreshRequested = FALSE

\* a list container without cards
NoCards == [f \in 1..MaxFiles |-> 0]

\* no list check
NoListCards == listCards = NoCards

\* no sort check
NoSort ==
    /\ soEntries = <<>>
    /\ soOut = <<>>
    /\ soPhase = "off"

\* no setState call
NoCall == [made |-> FALSE, once |-> FALSE, effect |-> "none",
           targetBefore |-> "null", targetAfter |-> "null"]

\* no state: the host has none saved for the view
NoState == [targetFolderPath |-> "null", hasLoaded |-> FALSE, saved |-> FALSE]

\* no restore check
NoRestore ==
    /\ rsStateRestored = FALSE
    /\ rsTargetFolderPath = "null"
    /\ rsEntries = 0
    /\ rsScreen = "blank"
    /\ rsReloadTimer = FALSE
    /\ rsViewState = NoState
    /\ rsRestoredOnce = FALSE
    /\ rsCall = NoCall
    /\ rsPhase = "off"

\* no quiescence check
NoQuiesce ==
    /\ quRefreshes = 0
    /\ quScans = 0
    /\ quTimers = 0
    /\ quPhase = "off"

\* no batch check
NoBatch ==
    /\ baFiles = 0
    /\ baInFlight = {}
    /\ baIndex = 0
    /\ baPhase = "off"

\* no month check
NoSections == listSections = <<>>

\* no view-file check
NoConfig ==
    /\ cfFolder = <<>>
    /\ cfNotes = {}
    /\ cfEntries = {}
    /\ cfPhase = "off"

\* no path
NoPath == [day |-> 0, time |-> 0 - 1]

\* no new-note check
NoNote ==
    /\ nnFiles = {}
    /\ nnNow = [day |-> 0, minute |-> 0]
    /\ nnToday = [day |-> 0, minute |-> 0]
    /\ nnFinalPath = NoPath
    /\ nnCounter = 0
    /\ nnCreated = "none"
    /\ nnPhase = "off"

\* no close check
NoClose ==
    /\ clClosed = FALSE
    /\ clTimers = {}
    /\ clObserver = FALSE
    /\ clList = FALSE
    /\ clPluginView = FALSE
    /\ clRan = {}
    /\ clPhase = "off"

\* no leaf check
NoLeaves ==
    /\ lfLeaves = <<>>
    /\ lfCalls = <<>>

\* no deleteEntry call
NoDelete == [kind |-> "none", file |-> 0, changed |-> FALSE]

\* no delete check
NoDeleteCheck ==
    /\ deVault = {}
    /\ deEntries = <<>>
    /\ deRendered = {}
    /\ deCards = {}
    /\ deLast = NoDelete
    /\ dePhase = "off"

\* ---- the frames of the card check and of the checks after it ----

\* none of these checks goes on
NoMore ==
    /\ NoCard
    /\ NoClick
    /\ NoFieldCheck
    /\ NoScopeCheck
    /\ NoStats
    /\ NoFolder
    /\ NoListCards
    /\ NoSort
    /\ NoRestore
    /\ NoQuiesce
    /\ NoBatch
    /\ NoSections
    /\ NoConfig
    /\ NoNote
    /\ NoClose
    /\ NoLeaves
    /\ NoDeleteCheck

\* the variables a step of the card check leaves alone
notCardVars ==
    <<viewVars, dateVars, imVars, dbVars, clickVars, fieldVars, scopeVars,
      statsVars, folderVars, listVars, sortVars, restoreVars, quVars, batchVars,
      monthsVars, configVars, noteVars, closeVars, leafVars, deleteVars>>

\* nothing but the card check goes on
NotCard ==
    /\ vaultN = 0
    /\ InitView
    /\ NoDateCheck
    /\ NoImageCheck
    /\ NoDebounce
    /\ NoClick
    /\ NoFieldCheck
    /\ NoScopeCheck
    /\ NoStats
    /\ NoFolder
    /\ NoListCards
    /\ NoSort
    /\ NoRestore
    /\ NoQuiesce
    /\ NoBatch
    /\ NoSections
    /\ NoConfig
    /\ NoNote
    /\ NoClose
    /\ NoLeaves
    /\ NoDeleteCheck

\* the variables a step of the click check leaves alone
notClickVars ==
    <<viewVars, dateVars, imVars, dbVars, cardVars, fieldVars, scopeVars,
      statsVars, folderVars, listVars, sortVars, restoreVars, quVars, batchVars,
      monthsVars, configVars, noteVars, closeVars, leafVars, deleteVars>>

\* nothing but the click check goes on
NotClick ==
    /\ vaultN = 0
    /\ InitView
    /\ NoDateCheck
    /\ NoImageCheck
    /\ NoDebounce
    /\ NoCard
    /\ NoFieldCheck
    /\ NoScopeCheck
    /\ NoStats
    /\ NoFolder
    /\ NoListCards
    /\ NoSort
    /\ NoRestore
    /\ NoQuiesce
    /\ NoBatch
    /\ NoSections
    /\ NoConfig
    /\ NoNote
    /\ NoClose
    /\ NoLeaves
    /\ NoDeleteCheck

\* the variables a step of the field check leaves alone
notFieldVars ==
    <<viewVars, dateVars, imVars, dbVars, cardVars, clickVars, scopeVars,
      statsVars, folderVars, listVars, sortVars, restoreVars, quVars, batchVars,
      monthsVars, configVars, noteVars, closeVars, leafVars, deleteVars>>

\* nothing but the field check goes on
NotField ==
    /\ vaultN = 0
    /\ InitView
    /\ NoDateCheck
    /\ NoImageCheck
    /\ NoDebounce
    /\ NoCard
    /\ NoClick
    /\ NoScopeCheck
    /\ NoStats
    /\ NoFolder
    /\ NoListCards
    /\ NoSort
    /\ NoRestore
    /\ NoQuiesce
    /\ NoBatch
    /\ NoSections
    /\ NoConfig
    /\ NoNote
    /\ NoClose
    /\ NoLeaves
    /\ NoDeleteCheck

\* the variables a step of the scope check leaves alone
notScopeVars ==
    <<viewVars, dateVars, imVars, dbVars, cardVars, clickVars, fieldVars,
      statsVars, folderVars, listVars, sortVars, restoreVars, quVars, batchVars,
      monthsVars, configVars, noteVars, closeVars, leafVars, deleteVars>>

\* nothing but the scope check goes on
NotScope ==
    /\ vaultN = 0
    /\ InitView
    /\ NoDateCheck
    /\ NoImageCheck
    /\ NoDebounce
    /\ NoCard
    /\ NoClick
    /\ NoFieldCheck
    /\ NoStats
    /\ NoFolder
    /\ NoListCards
    /\ NoSort
    /\ NoRestore
    /\ NoQuiesce
    /\ NoBatch
    /\ NoSections
    /\ NoConfig
    /\ NoNote
    /\ NoClose
    /\ NoLeaves
    /\ NoDeleteCheck

\* the variables a step of the stats check leaves alone
notStatsVars ==
    <<viewVars, dateVars, imVars, dbVars, cardVars, clickVars, fieldVars,
      scopeVars, folderVars, listVars, sortVars, restoreVars, quVars, batchVars,
      monthsVars, configVars, noteVars, closeVars, leafVars, deleteVars>>

\* nothing but the stats check goes on
NotStats ==
    /\ vaultN = 0
    /\ InitView
    /\ NoDateCheck
    /\ NoImageCheck
    /\ NoDebounce
    /\ NoCard
    /\ NoClick
    /\ NoFieldCheck
    /\ NoScopeCheck
    /\ NoFolder
    /\ NoListCards
    /\ NoSort
    /\ NoRestore
    /\ NoQuiesce
    /\ NoBatch
    /\ NoSections
    /\ NoConfig
    /\ NoNote
    /\ NoClose
    /\ NoLeaves
    /\ NoDeleteCheck

\* the variables a step of the folder check leaves alone
notFolderVars ==
    <<dateVars, imVars, dbVars, cardVars, clickVars, fieldVars, scopeVars,
      statsVars, listVars, sortVars, restoreVars, quVars, batchVars, monthsVars,
      configVars, noteVars, closeVars, leafVars, deleteVars>>

\* nothing but the folder check goes on
NotFolder ==
    /\ NoDateCheck
    /\ NoImageCheck
    /\ NoDebounce
    /\ NoCard
    /\ NoClick
    /\ NoFieldCheck
    /\ NoScopeCheck
    /\ NoStats
    /\ NoListCards
    /\ NoSort
    /\ NoRestore
    /\ NoQuiesce
    /\ NoBatch
    /\ NoSections
    /\ NoConfig
    /\ NoNote
    /\ NoClose
    /\ NoLeaves
    /\ NoDeleteCheck

\* the variables a step of the list check leaves alone
notListVars ==
    <<dateVars, imVars, dbVars, cardVars, clickVars, fieldVars, scopeVars,
      statsVars, folderVars, sortVars, restoreVars, quVars, batchVars, monthsVars,
      configVars, noteVars, closeVars, leafVars, deleteVars>>

\* nothing but the list check goes on
NotList ==
    /\ NoDateCheck
    /\ NoImageCheck
    /\ NoDebounce
    /\ NoCard
    /\ NoClick
    /\ NoFieldCheck
    /\ NoScopeCheck
    /\ NoStats
    /\ NoFolder
    /\ NoSort
    /\ NoRestore
    /\ NoQuiesce
    /\ NoBatch
    /\ NoSections
    /\ NoConfig
    /\ NoNote
    /\ NoClose
    /\ NoLeaves
    /\ NoDeleteCheck

\* the variables a step of the sort check leaves alone
notSortVars ==
    <<viewVars, dateVars, imVars, dbVars, cardVars, clickVars, fieldVars,
      scopeVars, statsVars, folderVars, listVars, restoreVars, quVars, batchVars,
      monthsVars, configVars, noteVars, closeVars, leafVars, deleteVars>>

\* nothing but the sort check goes on
NotSort ==
    /\ vaultN = 0
    /\ InitView
    /\ NoDateCheck
    /\ NoImageCheck
    /\ NoDebounce
    /\ NoCard
    /\ NoClick
    /\ NoFieldCheck
    /\ NoScopeCheck
    /\ NoStats
    /\ NoFolder
    /\ NoListCards
    /\ NoRestore
    /\ NoQuiesce
    /\ NoBatch
    /\ NoSections
    /\ NoConfig
    /\ NoNote
    /\ NoClose
    /\ NoLeaves
    /\ NoDeleteCheck

\* the variables a step of the restore check leaves alone
notRestoreVars ==
    <<viewVars, dateVars, imVars, dbVars, cardVars, clickVars, fieldVars,
      scopeVars, statsVars, folderVars, listVars, sortVars, quVars, batchVars,
      monthsVars, configVars, noteVars, closeVars, leafVars, deleteVars>>

\* nothing but the restore check goes on
NotRestore ==
    /\ vaultN = 0
    /\ InitView
    /\ NoDateCheck
    /\ NoImageCheck
    /\ NoDebounce
    /\ NoCard
    /\ NoClick
    /\ NoFieldCheck
    /\ NoScopeCheck
    /\ NoStats
    /\ NoFolder
    /\ NoListCards
    /\ NoSort
    /\ NoQuiesce
    /\ NoBatch
    /\ NoSections
    /\ NoConfig
    /\ NoNote
    /\ NoClose
    /\ NoLeaves
    /\ NoDeleteCheck

\* the variables a step of the quiesce check leaves alone
notQuiesceVars ==
    <<viewVars, dateVars, imVars, dbVars, cardVars, clickVars, fieldVars,
      scopeVars, statsVars, folderVars, listVars, sortVars, batchVars, monthsVars,
      configVars, noteVars, closeVars, leafVars, deleteVars>>

\* nothing but the quiesce check goes on
NotQuiesce ==
    /\ vaultN = 0
    /\ InitView
    /\ NoDateCheck
    /\ NoImageCheck
    /\ NoDebounce
    /\ NoCard
    /\ NoClick
    /\ NoFieldCheck
    /\ NoScopeCheck
    /\ NoStats
    /\ NoFolder
    /\ NoListCards
    /\ NoSort
    /\ NoBatch
    /\ NoSections
    /\ NoConfig
    /\ NoNote
    /\ NoClose
    /\ NoLeaves
    /\ NoDeleteCheck

\* the variables a step of the batch check leaves alone
notBatchVars ==
    <<viewVars, dateVars, imVars, dbVars, cardVars, clickVars, fieldVars,
      scopeVars, statsVars, folderVars, listVars, sortVars, restoreVars, quVars,
      monthsVars, configVars, noteVars, closeVars, leafVars, deleteVars>>

\* nothing but the batch check goes on
NotBatch ==
    /\ vaultN = 0
    /\ InitView
    /\ NoDateCheck
    /\ NoImageCheck
    /\ NoDebounce
    /\ NoCard
    /\ NoClick
    /\ NoFieldCheck
    /\ NoScopeCheck
    /\ NoStats
    /\ NoFolder
    /\ NoListCards
    /\ NoSort
    /\ NoRestore
    /\ NoQuiesce
    /\ NoSections
    /\ NoConfig
    /\ NoNote
    /\ NoClose
    /\ NoLeaves
    /\ NoDeleteCheck

\* the variables a step of the months check leaves alone
notMonthsVars ==
    <<dateVars, imVars, dbVars, cardVars, clickVars, fieldVars, scopeVars,
      statsVars, folderVars, listVars, sortVars, restoreVars, quVars, batchVars,
      configVars, noteVars, closeVars, leafVars, deleteVars>>

\* nothing but the months check goes on
NotMonths ==
    /\ NoDateCheck
    /\ NoImageCheck
    /\ NoDebounce
    /\ NoCard
    /\ NoClick
    /\ NoFieldCheck
    /\ NoScopeCheck
    /\ NoStats
    /\ NoFolder
    /\ NoListCards
    /\ NoSort
    /\ NoRestore
    /\ NoQuiesce
    /\ NoBatch
    /\ NoConfig
    /\ NoNote
    /\ NoClose
    /\ NoLeaves
    /\ NoDeleteCheck

\* the variables a step of the config check leaves alone
notConfigVars ==
    <<viewVars, dateVars, imVars, dbVars, cardVars, clickVars, fieldVars,
      scopeVars, statsVars, folderVars, listVars, sortVars, restoreVars, quVars,
      batchVars, monthsVars, noteVars, closeVars, leafVars, deleteVars>>

\* nothing but the config check goes on
NotConfig ==
    /\ vaultN = 0
    /\ InitView
    /\ NoDateCheck
    /\ NoImageCheck
    /\ NoDebounce
    /\ NoCard
    /\ NoClick
    /\ NoFieldCheck
    /\ NoScopeCheck
    /\ NoStats
    /\ NoFolder
    /\ NoListCards
    /\ NoSort
    /\ NoRestore
    /\ NoQuiesce
    /\ NoBatch
    /\ NoSections
    /\ NoNote
    /\ NoClose
    /\ NoLeaves
    /\ NoDeleteCheck

\* the variables a step of the note check leaves alone
notNoteVars ==
    <<viewVars, dateVars, imVars, dbVars, cardVars, clickVars, fieldVars,
      scopeVars, statsVars, folderVars, listVars, sortVars, restoreVars, quVars,
      batchVars, monthsVars, configVars, closeVars, leafVars, deleteVars>>

\* nothing but the note check goes on
NotNote ==
    /\ vaultN = 0
    /\ InitView
    /\ NoDateCheck
    /\ NoImageCheck
    /\ NoDebounce
    /\ NoCard
    /\ NoClick
    /\ NoFieldCheck
    /\ NoScopeCheck
    /\ NoStats
    /\ NoFolder
    /\ NoListCards
    /\ NoSort
    /\ NoRestore
    /\ NoQuiesce
    /\ NoBatch
    /\ NoSections
    /\ NoConfig
    /\ NoClose
    /\ NoLeaves
    /\ NoDeleteCheck

\* the variables a step of the close check leaves alone
notCloseVars ==
    <<viewVars, dateVars, imVars, dbVars, cardVars, clickVars, fieldVars,
      scopeVars, statsVars, folderVars, listVars, sortVars, restoreVars, quVars,
      batchVars, monthsVars, configVars, noteVars, leafVars, deleteVars>>

\* nothing but the close check goes on
NotClose ==
    /\ vaultN = 0
    /\ InitView
    /\ NoDateCheck
    /\ NoImageCheck
    /\ NoDebounce
    /\ NoCard
    /\ NoClick
    /\ NoFieldCheck
    /\ NoScopeCheck
    /\ NoStats
    /\ NoFolder
    /\ NoListCards
    /\ NoSort
    /\ NoRestore
    /\ NoQuiesce
    /\ NoBatch
    /\ NoSections
    /\ NoConfig
    /\ NoNote
    /\ NoLeaves
    /\ NoDeleteCheck

\* the variables a step of the leaf check leaves alone
notLeafVars ==
    <<viewVars, dateVars, imVars, dbVars, cardVars, clickVars, fieldVars,
      scopeVars, statsVars, folderVars, listVars, sortVars, restoreVars, quVars,
      batchVars, monthsVars, configVars, noteVars, closeVars, deleteVars>>

\* nothing but the leaf check goes on
NotLeaf ==
    /\ vaultN = 0
    /\ InitView
    /\ NoDateCheck
    /\ NoImageCheck
    /\ NoDebounce
    /\ NoCard
    /\ NoClick
    /\ NoFieldCheck
    /\ NoScopeCheck
    /\ NoStats
    /\ NoFolder
    /\ NoListCards
    /\ NoSort
    /\ NoRestore
    /\ NoQuiesce
    /\ NoBatch
    /\ NoSections
    /\ NoConfig
    /\ NoNote
    /\ NoClose
    /\ NoDeleteCheck

\* the variables a step of the delete check leaves alone
notDeleteVars ==
    <<viewVars, dateVars, imVars, dbVars, cardVars, clickVars, fieldVars,
      scopeVars, statsVars, folderVars, listVars, sortVars, restoreVars, quVars,
      batchVars, monthsVars, configVars, noteVars, closeVars, leafVars>>

\* nothing but the delete check goes on
NotDelete ==
    /\ vaultN = 0
    /\ InitView
    /\ NoDateCheck
    /\ NoImageCheck
    /\ NoDebounce
    /\ NoCard
    /\ NoClick
    /\ NoFieldCheck
    /\ NoScopeCheck
    /\ NoStats
    /\ NoFolder
    /\ NoListCards
    /\ NoSort
    /\ NoRestore
    /\ NoQuiesce
    /\ NoBatch
    /\ NoSections
    /\ NoConfig
    /\ NoNote
    /\ NoClose
    /\ NoLeaves

\* ---- end of the frames ----

\* ------------------------------------------------------------------------
\* Spec: the journal view
\* ------------------------------------------------------------------------

Init ==
    /\ vaultN \in VaultSizes
    /\ InitView
    /\ NoDateCheck
    /\ NoImageCheck
    /\ NoDebounce
    /\ NoMore

\* the exceptions a step that calls render() may meet: none, one thrown by
\* render itself, one thrown by the throwAt-th createJournalCard
RenderFaults(renders) ==
    IF renders
    THEN {<<FALSE, 0>>, <<TRUE, 0>>} \cup {<<FALSE, t>> : t \in 1..MaxThrowAt}
    ELSE {<<FALSE, 0>>}

\* a loadEntries call made now would get past its guard and list the files
Lists == ~isLoading

\* a loadEntries call made now would return without waiting for the vault
ReturnsAtOnce(listThrows) ==
    isLoading \/ listThrows \/ ~BatchPending(Listing(vaultN), 0)

\* the host calls setState(state), with or without a saved hasLoaded; a call
\* after the state was restored returns at once
SetState ==
    /\ ~stateRestored
    /\ \E hasLoaded \in BOOLEAN : Becomes(setState(View, hasLoaded))
    /\ UNCHANGED <<vaultN, sideVars>>

\* the timer of onOpen: if (!this.stateRestored) this.renderEmpty()
OnOpenTimer ==
    /\ openTimer
    /\ Becomes(IF stateRestored THEN [View EXCEPT !.openTimer = FALSE]
               ELSE renderEmpty([View EXCEPT !.openTimer = FALSE]))
    /\ UNCHANGED <<vaultN, sideVars>>

\* the timer of setState: if (!this.isLoading && this.contentEl)
\* { await this.loadEntries(); this.render(); }
RestoreTimer ==
    /\ restoreTimer
    /\ \E listThrows \in (IF Lists THEN BOOLEAN ELSE {FALSE}) :
       \E r \in RenderFaults(~isLoading /\ ReturnsAtOnce(listThrows)) :
          Becomes(IF isLoading THEN [View EXCEPT !.restoreTimer = FALSE]
                  ELSE CallLoad([View EXCEPT !.restoreTimer = FALSE], "restore",
                                Listing(vaultN), listThrows, r[1], r[2]))
    /\ UNCHANGED <<vaultN, sideVars>>

\* a click on the start-scan button: contentEl.empty(), renderLoading(),
\* then the SCAN_DELAY
ClickStartScan ==
    /\ screen = "empty"
    /\ pc["button"] = "idle"
    /\ Becomes([View EXCEPT !.screen = "skeleton", !.pc["button"] = "wait1"])
    /\ UNCHANGED <<vaultN, sideVars>>

\* the button handler after SCAN_DELAY: await this.loadEntries()
ButtonScan ==
    /\ pc["button"] = "wait1"
    /\ \E listThrows \in (IF Lists THEN BOOLEAN ELSE {FALSE}) :
          Becomes(CallLoad(View, "button", Listing(vaultN), listThrows, FALSE, 0))
    /\ UNCHANGED <<vaultN, sideVars>>

\* the button handler after RENDER_DELAY: this.render(); this.saveState()
ButtonRender ==
    /\ pc["button"] = "wait2"
    /\ \E r \in RenderFaults(TRUE) :
          Becomes(LET s == render([View EXCEPT !.pc["button"] = "idle"], r[1], r[2])
                  IN  IF r[1] THEN s ELSE saveState(s))
    /\ UNCHANGED <<vaultN, sideVars>>

\* refresh() is called: the refresh command, a settings change, the
\* plugin's activateView / openFolderJournalView, the delayed refresh of
\* createNewNote
Refresh ==
    /\ \E listThrows \in (IF Lists /\ ~isRefreshing THEN BOOLEAN ELSE {FALSE}) :
       \E r \in RenderFaults(~isRefreshing /\ ReturnsAtOnce(listThrows)) :
          Becomes(refresh(View, Listing(vaultN), listThrows, r[1], r[2]))
    /\ UNCHANGED <<vaultN, sideVars>>

\* the reads of the batch that the loadEntries call of c awaits are over,
\* those of the files in bad with an error
ScanStep(c) ==
    /\ pc[c] = "scan"
    /\ \E bad \in SUBSET (Flaky \cap (scan[c].idx + 1)..(scan[c].idx + BATCH_SIZE)
                                \cap SeqRange(scan[c].files)) :
          LET s1 == loadEntriesStep(View, c, bad)
          IN  \E r \in RenderFaults(c # "button" /\ s1.pc[c] # "scan") :
                 Becomes(IF s1.pc[c] = "scan" THEN s1
                         ELSE AfterLoad(s1, c, r[1], r[2]))
    /\ UNCHANGED <<vaultN, sideVars>>

\* the trigger timers (setupLazyLoading, loadMoreEntries):
\* this.loadMoreObserver.observe(trigger)
ObserveTrigger ==
    /\ trigger = "pending"
    /\ loadMoreObserver
    /\ Becomes([View EXCEPT !.trigger = "observed"])
    /\ UNCHANGED <<vaultN, sideVars>>

\* the observer reports the trigger as intersecting: the callback starts
\* its 100 ms timer
ObserverFires ==
    /\ loadMoreObserver
    /\ trigger = "observed"
    /\ screen = "list"
    /\ ~isLoadingMore
    /\ ~lmTimer
    /\ Becomes([View EXCEPT !.lmTimer = TRUE])
    /\ UNCHANGED <<vaultN, sideVars>>

\* the timer of the observer callback:
\* if (!this.isLoadingMore && this.listContainer) this.loadMoreEntries(...)
LoadMoreTimer ==
    /\ lmTimer
    /\ \E throwAt \in 0..MaxThrowAt :
          Becomes(IF ~isLoadingMore /\ hasList
                  THEN loadMoreEntries([View EXCEPT !.lmTimer = FALSE], throwAt)
                  ELSE [View EXCEPT !.lmTimer = FALSE])
    /\ UNCHANGED <<vaultN, sideVars>>

\* notes are created in or deleted from the vault
VaultChange ==
    /\ vaultN' \in VaultSizes \ {vaultN}
    /\ Becomes(View)
    /\ UNCHANGED sideVars

Next ==
    \/ SetState
    \/ OnOpenTimer
    \/ RestoreTimer
    \/ ClickStartScan
    \/ ButtonScan
    \/ ButtonRender
    \/ Refresh
    \/ \E c \in Callers : ScanStep(c)
    \/ ObserveTrigger
    \/ ObserverFires
    \/ LoadMoreTimer
    \/ VaultChange

Spec == Init /\ [][Next]_vars

\* ------------------------------------------------------------------------
\* SpecDate: extractDate on every file of DateFiles
\* ------------------------------------------------------------------------

InitDate ==
    /\ xFile \in DateFiles(MaxTokens)
    /\ xOut = Null
    /\ xPhase = "in"
    /\ vaultN = 0
    /\ InitView
    /\ NoImageCheck
    /\ NoDebounce
    /\ NoMore

\* extractDate(file, content, app) on the file's whole text
ExtractDateCall ==
    /\ xPhase = "in"
    /\ xOut' = extractDate(xFile, xFile.body)
    /\ xPhase' = "out"
    /\ UNCHANGED <<xFile, viewVars, imVars, dbVars, moreVars>>

NextDate == ExtractDateCall

SpecDate == InitDate /\ [][NextDate]_vars

\* ------------------------------------------------------------------------
\* utils.ts: extractImagesFromContent
\*
\* A content is a sequence of tokens: a wiki embed ![[name]] or
\* ![[name|size]], a Markdown image ![alt](dest), or other text.  A path is
\* a sequence of segments.
\* ------------------------------------------------------------------------

\* the longest content of the image check, in tokens
MaxImageTokens == 3

\* the files of the vault of the image check, and its folder
ImageFiles == {<<"img.png">>, <<"a", "pic.png">>}

ImageFolders == {<<"a">>}

Wiki(name, sized) == [k |-> "wiki", name |-> name, sized |-> sized]

Md(alt, scheme, segs) == [k |-> "md", alt |-> alt, scheme |-> scheme, segs |-> segs]

\* the tokens of a content: embeds of a file at the root, of a file in a
\* folder (with a size) and of a file that does not exist; image links
\* with an external URL, with a path from the vault root (to a file, to a
\* folder), with a relative path (plain, with '.', with '..'); other text
ImageTokens ==
    { Wiki("img.png", FALSE), Wiki("pic.png", TRUE), Wiki("missing.png", FALSE),
      Md(TRUE, "http", <<"x.png">>),
      Md(TRUE, "abs", <<"img.png">>),
      Md(FALSE, "abs", <<"a">>),
      Md(FALSE, "rel", <<"pic.png">>),
      Md(TRUE, "rel", <<".", "pic.png">>),
      Md(FALSE, "rel", <<"..", "img.png">>),
      [k |-> "txt"] }

\* the length of the text of a token
TokenLength(t) ==
    CASE t.k = "wiki" -> 5 + (IF t.sized THEN 2 ELSE 0)
      [] t.k = "md" -> 4 + (IF t.alt THEN 1 ELSE 0) + Len(t.segs)
      [] OTHER -> 1

\* match.index of the i-th token
RECURSIVE Offset(_, _)
Offset(content, i) ==
    IF i = 1 THEN 0 ELSE Offset(content, i - 1) + TokenLength(content[i - 1])

\* null where the host returns a file or a folder: the empty path
NoFile == <<>>

\* app.metadataCache.getFirstLinkpathDest(linkpath, sourcePath): the file
\* with that name, wherever it lies, or null
getFirstLinkpathDest(name) ==
    IF \E f \in ImageFiles : f[Len(f)] = name
    THEN CHOOSE f \in ImageFiles : f[Len(f)] = name
    ELSE NoFile

\* app.vault.getAbstractFileByPath(path): the file or the folder at exactly
\* that path, or null
getAbstractFileByPath(path) ==
    IF path \in ImageFiles \cup ImageFolders THEN path ELSE NoFile

\* no ImageInfo
NoImage == [name |-> "", path |-> NoFile, altText |-> FALSE, position |-> Null]

\* imageFile && imageFile instanceof TFile
IsTFile(f) == f \in ImageFiles

NotDot(seg) == seg # "."

\* the file a Markdown image link is looked up at: a path from the vault
\* root as it stands, a relative path behind the folder of the note with
\* its '.' segments dropped
MarkdownImageFile(t, dir) ==
    IF t.scheme = "abs" THEN getAbstractFileByPath(t.segs)
    ELSE getAbstractFileByPath(SelectSeq(dir \o t.segs, NotDot))

\* the ImageInfo pushed for the i-th token, or NoImage when none is.  name is
\* the name as the link gives it (wiki) or the file's basename (Markdown).
ImageOf(content, dir, i) ==
    LET t == content[i]
        f == IF t.k = "wiki" THEN getFirstLinkpathDest(t.name)
             ELSE IF t.k = "md" /\ t.scheme # "http" THEN MarkdownImageFile(t, dir)
             ELSE NoFile
    IN  IF ~IsTFile(f) THEN NoImage
        ELSE [name |-> IF t.k = "wiki" THEN t.name ELSE f[Len(f)],
              path |-> f,
              altText |-> t.k = "md" /\ t.alt,
              position |-> Offset(content, i)]

\* the images pushed by the pass over the tokens of kind k, in the order of
\* the matches
RECURSIVE Pass(_, _, _, _)
Pass(content, dir, k, i) ==
    IF i > Len(content) THEN <<>>
    ELSE (IF content[i].k = k /\ ImageOf(content, dir, i) # NoImage
          THEN <<ImageOf(content, dir, i)>> ELSE <<>>)
             \o Pass(content, dir, k, i + 1)

PositionBefore(a, b) == a.position < b.position

\* a mutant of SortByPosition: the list is returned as the passes built it
SortByPosition_none(images) == images

\* images.sort((a, b) => a.position - b.position)
SortByPosition(images) == SortSeq(images, PositionBefore)

\* extractImagesFromContent(content, file, app)
extractImagesFromContent(content, dir) ==
    SortByPosition(Pass(content, dir, "wiki", 1) \o Pass(content, dir, "md", 1))

\* ------------------------------------------------------------------------
\* SpecImages: extractImagesFromContent on every content of the bounds, in
\* a note at the vault root and in a note in the folder
\* ------------------------------------------------------------------------

InitImages ==
    /\ imContent \in SeqsUpTo(ImageTokens, MaxImageTokens)
    /\ imDir \in {<<>>} \cup ImageFolders
    /\ imOut = <<>>
    /\ imPhase = "in"
    /\ vaultN = 0
    /\ InitView
    /\ NoDateCheck
    /\ NoDebounce
    /\ NoMore

ExtractImagesCall ==
    /\ imPhase = "in"
    /\ imOut' = extractImagesFromContent(imContent, imDir)
    /\ imPhase' = "out"
    /\ UNCHANGED <<imContent, imDir, vaultN, viewVars, dateVars, dbVars, moreVars>>

NextImages == ExtractImagesCall

SpecImages == InitImages /\ [][NextImages]_vars

\* ------------------------------------------------------------------------
\* The debounced refresh on file-system events (debouncedRefresh,
\* REFRESH_DEBOUNCE_DELAY, the vault's create / delete / rename / modify
\* handlers)
\* ------------------------------------------------------------------------

\* REFRESH_DEBOUNCE_DELAY, in ms
REFRESH_DEBOUNCE_DELAY == 200

\* the step of the clock, in ms
TickMs == 50

\* the clock stops here
MaxClock == 700

\* the most file-system events of a run
MaxEvents == 4

FsEventKinds == {"create", "delete", "rename", "modify"}

\* a mutant of ClearTimeout: the pending timeout is left to fire
ClearTimeout_none(pending, id) == pending

\* clearTimeout(id)
ClearTimeout(pending, id) == {t \in pending : t.id # id}

\* the pending timeouts after debouncedRefresh() at the time at: the timer
\* held is cleared and a new one is set
debouncedRefresh(pending, held, id, at) ==
    (IF held # Null THEN ClearTimeout(pending, held) ELSE pending)
        \cup {[id |-> id, due |-> at + REFRESH_DEBOUNCE_DELAY]}

InitDebounce ==
    /\ now = 0
    /\ timers = {}
    /\ refreshDebounceTimer = Null
    /\ nextTimerId = 1
    /\ lastEvent = Null
    /\ events = 0
    /\ burst = 0
    /\ refreshCalls = 0
    /\ refreshGap = Null
    /\ dbPhase = "on"
    /\ vaultN = 0
    /\ InitView
    /\ NoDateCheck
    /\ NoImageCheck
    /\ NoMore

\* the vault reports an event on a Markdown file of the journal: its
\* handler calls debouncedRefresh()
FsEvent ==
    /\ dbPhase = "on"
    /\ events < MaxEvents
    /\ \E kind \in FsEventKinds :
          /\ timers' = debouncedRefresh(timers, refreshDebounceTimer, nextTimerId, now)
          /\ refreshDebounceTimer' = nextTimerId
          /\ nextTimerId' = nextTimerId + 1
          /\ lastEvent' = now
          /\ events' = events + 1
          /\ burst' = IF lastEvent # Null /\ now - lastEvent < REFRESH_DEBOUNCE_DELAY
                      THEN burst + 1 ELSE 1
          /\ refreshCalls' = 0
    /\ UNCHANGED <<now, refreshGap, dbPhase, vaultN, viewVars, dateVars, imVars, moreVars>>

\* a timeout set by debouncedRefresh is due: this.refresh();
\* this.refreshDebounceTimer = null
DebounceTimer ==
    /\ dbPhase = "on"
    /\ \E t \in timers :
          /\ t.due <= now
          /\ timers' = timers \ {t}
    /\ refreshDebounceTimer' = Null
    /\ refreshCalls' = refreshCalls + 1
    /\ refreshGap' = now - lastEvent
    /\ UNCHANGED <<now, nextTimerId, lastEvent, events, burst, dbPhase,
                   vaultN, viewVars, dateVars, imVars, moreVars>>

\* time passes, unless a timeout is due
Tick ==
    /\ dbPhase = "on"
    /\ now < MaxClock
    /\ \A t \in timers : t.due > now
    /\ now' = now + TickMs
    /\ UNCHANGED <<timers, refreshDebounceTimer, nextTimerId, lastEvent, events, burst,
                   refreshCalls, refreshGap, dbPhase, vaultN, viewVars, dateVars, imVars, moreVars>>

NextDebounce == FsEvent \/ DebounceTimer \/ Tick

SpecDebounce == InitDebounce /\ [][NextDebounce]_vars

\* ------------------------------------------------------------------------
\* C1
\* ------------------------------------------------------------------------

Has(text, k) == \E i \in DOMAIN text : text[i].k = k

\* the date of the leftmost literal of notation k in the text
Leftmost(text, k) ==
    LET i == CHOOSE j \in DOMAIN text :
                 text[j].k = k /\ \A h \in 1..(j - 1) : text[h].k # k
    IN  text[i].d * TicksPerDay

Parseable(v) == v.k = "str"

NameHasDate(f) == Has(f.basename, "iso") \/ Has(f.basename, "cn") \/ Has(f.basename, "dot")

FrontmatterHasDate(f) ==
    \E i \in DOMAIN dateFields : Parseable(f.frontmatter[dateFields[i]])

BodyHasDate(text) == Has(text, "cn") \/ Has(text, "iso") \/ Has(text, "slash")

\* the date the documented priority order gives: file name (ISO, Chinese,
\* dotted), frontmatter (date, Date, created, created_time), body (Chinese,
\* ISO, slash), creation time
DocumentedDate(f, text) ==
    LET n == f.basename
        fm == f.frontmatter
    IN  CASE Has(n, "iso") -> Leftmost(n, "iso")
          [] ~Has(n, "iso") /\ Has(n, "cn") -> Leftmost(n, "cn")
          [] ~Has(n, "iso") /\ ~Has(n, "cn") /\ Has(n, "dot") -> Leftmost(n, "dot")
          [] ~NameHasDate(f) /\ FrontmatterHasDate(f) ->
                LET i == CHOOSE j \in DOMAIN dateFields :
                             /\ Parseable(fm[dateFields[j]])
                             /\ \A h \in 1..(j - 1) : ~Parseable(fm[dateFields[h]])
                IN  fm[dateFields[i]].t
          [] ~NameHasDate(f) /\ ~FrontmatterHasDate(f) /\ Has(text, "cn") ->
                Leftmost(text, "cn")
          [] ~NameHasDate(f) /\ ~FrontmatterHasDate(f) /\ ~Has(text, "cn")
                /\ Has(text, "iso") -> Leftmost(text, "iso")
          [] ~NameHasDate(f) /\ ~FrontmatterHasDate(f) /\ ~Has(text, "cn")
                /\ ~Has(text, "iso") /\ Has(text, "slash") -> Leftmost(text, "slash")
          [] OTHER -> f.ctime

\* C1: extractDate returns the date of the first strategy that succeeds, in
\* the order file name (ISO, then Chinese, then dotted), frontmatter (date,
\* Date, created, created_time: the first that parses), body (Chinese, then
\* ISO, then slash), creation time; a later strategy decides only when every
\* earlier one yields nothing.
C1_ExtractDateOrder ==
    xPhase = "out" => xOut = DocumentedDate(xFile, xFile.body)

\* C1 witness: extractDate has returned for a file whose name has no date,
\* whose frontmatter 'date' does not parse but whose 'created' does, and
\* whose body holds a date as well: the frontmatter decided, by its third
\* field.
C1_Witness ==
    /\ xPhase = "out"
    /\ ~NameHasDate(xFile)
    /\ xFile.frontmatter.date = FmBad
    /\ xFile.frontmatter.Date = FmNone
    /\ Parseable(xFile.frontmatter.created)
    /\ BodyHasDate(xFile.body)
    /\ xOut = 103

\* ------------------------------------------------------------------------
\* C2 - C9: the journal view (Spec)
\* ------------------------------------------------------------------------

\* the files that have an entry in the view
EntryFiles == {entries[i].file : i \in DOMAIN entries}

\* the callers that are inside loadEntries
Scanning == {c \in Callers : pc[c] = "scan"}

\* C2: for every entry that loadEntries puts into the view, entry.date is
\* the date the documented priority order (file name, then frontmatter, then
\* body, then creation time) gives for its file; in particular a file whose
\* name holds a date gets that date even when its frontmatter has a
\* parseable 'date'.
C2_EntryDateDocumented ==
    \A i \in DOMAIN entries :
        entries[i].date = DocumentedDate(FileOf(entries[i].file),
                                         FileOf(entries[i].file).body)

\* a file without date information: none in its name, its frontmatter or
\* its body
NoDateInfo(f) == ~NameHasDate(f) /\ ~FrontmatterHasDate(f) /\ ~BodyHasDate(f.body)

C4_EntriesAreTheScan ==
    lastScan.ended = "done" =>
        /\ EntryFiles = SeqRange(lastScan.files) \ lastScan.bad
        /\ Len(entries) = Cardinality(EntryFiles)

\* C4 witness: a scan has ended that found more entries in the view than it
\* listed files, and that failed to read one of its files.
C4_Witness ==
    /\ lastScan.ended = "done"
    /\ lastScan.prevLen > Len(lastScan.files)
    /\ lastScan.bad # {}
    /\ entries # <<>>

\* C5: at most one caller is inside loadEntries at any time; a step in
\* which a loadEntries call returned at its isLoading guard leaves entries,
\* currentPage and renderedEntries as they were; a step in which a refresh
\* call returned at its isRefreshing guard neither loads nor renders.
C5_OneScanAtATime ==
    /\ [](Cardinality(Scanning) <= 1)
    /\ [][/\ "loadEntries" \in skipped' =>
                UNCHANGED <<entries, currentPage, renderedEntries>>
          /\ "refresh" \in skipped' =>
                UNCHANGED <<entries, currentPage, renderedEntries, isLoading,
                            isLoadingMore, screen, hasList, trigger, pc, scan>>]_vars

\* C5 witness: a loadEntries call has just returned at its guard while the
\* scan of another caller is waiting for its second batch.
C5_Witness ==
    /\ "loadEntries" \in skipped
    /\ \E c \in Scanning : scan[c].idx = BATCH_SIZE
    /\ entries # <<>>

\* C6: isLoadingMore is set only inside a loadMoreEntries call, isLoading
\* only while some caller is inside loadEntries, isRefreshing only while
\* refresh is inside its loadEntries call: outside these calls the three
\* flags are false, also after a call that threw.
C6_FlagsReleased ==
    /\ ~isLoadingMore
    /\ Scanning = {} => ~isLoading
    /\ pc["refresh"] # "scan" => ~isRefreshing

\* C6 witness: a refresh has just ended in which createJournalCard threw
\* inside loadMoreEntries; no call is in progress and no flag is set.
C6_Witness ==
    /\ loadMore.kind = "throw"
    /\ lastScan.ended = "done"
    /\ Scanning = {}
    /\ ~isLoading /\ ~isRefreshing /\ ~isLoadingMore

\* C8: a loadEntries call in which the read of a file failed ends normally,
\* and its entries are those of all the other files it listed; while it
\* goes on, the view holds the entries of the other files handled so far.
C8_FailureDoesNotAbort ==
    /\ lastScan.ended # "none" /\ lastScan.bad # {} =>
          /\ lastScan.ended = "done"
          /\ EntryFiles = SeqRange(lastScan.files) \ lastScan.bad
    /\ \A c \in Scanning :
          scan[c].bad # {} =>
              /\ isLoading
              /\ EntryFiles = SeqRange(SubSeq(scan[c].files, 1, scan[c].idx)) \ scan[c].bad

\* C8 witness: a scan has ended in which both kinds of read failure
\* happened, and every other file has its entry.
C8_Witness ==
    /\ lastScan.ended = "done"
    /\ lastScan.bad = Flaky
    /\ Len(entries) = Len(lastScan.files) - Cardinality(Flaky)

\* C9: a loadMoreEntries call that renders anything renders exactly the
\* entries with the indices currentPage*20 .. min(currentPage*20 + 20,
\* entries.length) - 1 and then adds one to currentPage; a call with
\* currentPage*20 >= entries.length renders nothing and leaves currentPage;
\* and whenever no loadMoreEntries call is in progress the rendered indices
\* are exactly 0 .. min(currentPage*20, entries.length) - 1.
C9_Pagination ==
    /\ loadMore.rendered # {} =>
          /\ loadMore.rendered =
                (loadMore.page * ITEMS_PER_PAGE)
                    ..(Min2(loadMore.page * ITEMS_PER_PAGE + ITEMS_PER_PAGE, loadMore.len) - 1)
          /\ loadMore.pageAfter = loadMore.page + 1
    /\ loadMore.kind = "end" =>
          /\ loadMore.rendered = {}
          /\ loadMore.pageAfter = loadMore.page
    /\ ~isLoadingMore =>
          renderedEntries = 0..(Min2(currentPage * ITEMS_PER_PAGE, Len(entries)) - 1)

\* ------------------------------------------------------------------------
\* C7: the debounce (SpecDebounce)
\* ------------------------------------------------------------------------

LinkFile(t, dir) ==
    CASE t.k = "wiki" ->
            {f \in ImageFiles : f[Len(f)] = t.name}
      [] t.k = "md" /\ t.scheme = "abs" ->
            {f \in ImageFiles : f = t.segs}
      [] t.k = "md" /\ t.scheme = "rel" ->
            {f \in ImageFiles : f = SelectSeq(dir \o t.segs, NotDot)}
      [] OTHER -> {}

\* the tokens of the content whose link resolves, in the order of the text
RECURSIVE ResolvedLinks(_, _, _)
ResolvedLinks(content, dir, i) ==
    IF i > Len(content) THEN <<>>
    ELSE (IF LinkFile(content[i], dir) # {} THEN <<i>> ELSE <<>>)
             \o ResolvedLinks(content, dir, i + 1)

MaxCardImages == 10

\* DEFAULT_SETTINGS.imageLimit
DEFAULT_IMAGE_LIMIT == 3

\* the limits of the slider of the setting: setLimits(1, 10, 1)
IMAGE_LIMIT_MIN == 1

IMAGE_LIMIT_MAX == 10

\* the number of images createJournalCard slices off entry.images
MAX_IMAGES_PER_CARD == 3

\* entry.images.slice(0, 3)
CardDisplayImages(images) == SubSeq(images, 1, Min2(Len(images), MAX_IMAGES_PER_CARD))

\* the N of the "+N" overlay on the last image shown, 0 without an overlay
CardMoreCount(images) ==
    IF Len(images) > MAX_IMAGES_PER_CARD THEN Len(images) - MAX_IMAGES_PER_CARD ELSE 0

\* the plugin is loaded with the default settings, the view lists one entry
\* with some images and has not made its card yet
InitCard ==
    /\ imageLimit = DEFAULT_IMAGE_LIMIT
    /\ cardImages \in {[n \in 1..k |-> n] : k \in 0..MaxCardImages}
    /\ displayImages = <<>>
    /\ moreCount = 0
    /\ cardPhase = "new"
    /\ NotCard

\* createJournalCard(entry): the images of the card
createJournalCard ==
    /\ cardPhase \in {"new", "shown"}
    /\ displayImages' = CardDisplayImages(cardImages)
    /\ moreCount' = CardMoreCount(cardImages)
    /\ cardPhase' = "shown"
    /\ UNCHANGED <<imageLimit, cardImages, notCardVars>>

\* the onChange of the slider of the image limit: the setting is stored and
\* the view refreshed, which makes the card of the entry again
ImageLimitChange ==
    /\ cardPhase \in {"new", "shown"}
    /\ \E value \in IMAGE_LIMIT_MIN..IMAGE_LIMIT_MAX :
          imageLimit' = value
    /\ displayImages' = CardDisplayImages(cardImages)
    /\ moreCount' = CardMoreCount(cardImages)
    /\ cardPhase' = "shown"
    /\ UNCHANGED <<cardImages, notCardVars>>

NextCard ==
    \/ createJournalCard
    \/ ImageLimitChange

SpecCard == InitCard /\ [][NextCard]_vars

\* C11: a card shows at most settings.imageLimit images of its entry, and
\* as many as the entry has up to that limit, so that changing the setting
\* and refreshing changes the number of images shown accordingly.
C11_ImageLimit ==
    cardPhase = "shown" => Len(displayImages) = Min2(Len(cardImages), imageLimit)

\* ------------------------------------------------------------------------
\* SpecClick: the click on a card
\* ------------------------------------------------------------------------

\* the bound of the check: the positions the container scrolls between
MaxScroll == 7

\* the bound of the check: the cards of the list
MaxCards == 3

\* render(): the list is rendered into a new scroll container, created
\* with createDiv, at the top and without a _lastScrollTop
RenderScrollContainer ==
    /\ clickPhase = "on"
    /\ scrollTop' = 0
    /\ lastScrollTop' = Null
    /\ scrolled' = FALSE
    /\ clickResult' = "none"
    /\ clickedCard' = 0
    /\ openedFile' = 0
    /\ UNCHANGED <<clickPhase, notClickVars>>

\* the user scrolls the container to another position
Scroll ==
    /\ clickPhase = "on"
    /\ \E top \in (0..MaxScroll) \ {scrollTop} :
          scrollTop' = top
    /\ scrolled' = TRUE
    /\ clickResult' = "none"
    /\ clickedCard' = 0
    /\ openedFile' = 0
    /\ UNCHANGED <<lastScrollTop, clickPhase, notClickVars>>

\* scrollTop !== _lastScrollTop, where undefined is strictly unequal to
\* every number
IsScrolling == scrollTop # lastScrollTop

\* the click listener of a card
CardClick ==
    /\ clickPhase = "on"
    /\ \E card \in 1..MaxCards :
          /\ clickedCard' = card
          /\ openedFile' = IF IsScrolling THEN 0 ELSE card
    /\ lastScrollTop' = scrollTop
    /\ clickResult' = IF IsScrolling THEN "swallowed" ELSE "opened"
    /\ UNCHANGED <<scrollTop, scrolled, clickPhase, notClickVars>>

InitClick ==
    /\ scrollTop = 0
    /\ lastScrollTop = Null
    /\ scrolled = FALSE
    /\ clickResult = "none"
    /\ clickedCard = 0
    /\ openedFile = 0
    /\ clickPhase = "on"
    /\ NotClick

NextClick ==
    \/ RenderScrollContainer
    \/ Scroll
    \/ CardClick

SpecClick == InitClick /\ [][NextClick]_vars

\* C12: a click on a card opens the file of the entry unless scrollTop
\* differs from its value at the previous card click; in particular a click
\* on a card when the container was not scrolled since the list was
\* rendered opens the file.
C12_ClickOpens ==
    (clickResult # "none" /\ ~scrolled) => clickResult = "opened"

\* ------------------------------------------------------------------------
\* SpecField: loadEntryMetadata in a folder with a date field of its own
\* ------------------------------------------------------------------------

\* the bound of the check: the tokens of a file name and of a body
MaxFieldTokens == 1

\* the values of the date field dropdown: "" (use the default fields),
\* the four default fields and a field no file has
DateFieldOptions == {"", "date", "Date", "created", "created_time", "created_at"}

\* metadata.frontmatter[field], undefined where the file has no such field
FieldValue(file, field) ==
    IF file.hasFrontmatter /\ field \in DOMAIN file.frontmatter
    THEN file.frontmatter[field]
    ELSE FmNone

\* extractDate(file, content, app, customDateField), as the settings tab
\* describes it: with a date field the date is that frontmatter field of
\* the file and the creation time for a file without it; without one, the
\* default order
extractDateWithField(file, content, customDateField) ==
    IF customDateField = "" THEN extractDate(file, content)
    ELSE IF parseDate(FieldValue(file, customDateField)) # Null
    THEN parseDate(FieldValue(file, customDateField))
    ELSE file.ctime

\* the date of the entry loadEntryMetadata(file) returns when the reads
\* succeed, in a folder whose date field is customDateField
EntryDateInFolder(file, customDateField) ==
    IF FastPath(file)
    THEN parseDate(file.frontmatter.date)
    ELSE extractDateWithField(file, Truncate(file.body), customDateField)

InitField ==
    /\ fFile \in DateFiles(MaxFieldTokens)
    /\ fField \in DateFieldOptions
    /\ fOut = Null
    /\ fPhase = "in"
    /\ NotField

LoadEntryMetadataCall ==
    /\ fPhase = "in"
    /\ fOut' = EntryDateInFolder(fFile, fField)
    /\ fPhase' = "out"
    /\ UNCHANGED <<fFile, fField, notFieldVars>>

NextField == LoadEntryMetadataCall

SpecField == InitField /\ [][NextField]_vars

\* C13: in a folder with a date field of its own, the date of an entry is
\* that frontmatter field of its file, and the creation time of a file that
\* lacks the field; the default fields play no part there.
C13_CustomDateField ==
    (fPhase = "out" /\ fField # "") =>
        /\ parseDate(FieldValue(fFile, fField)) # Null
              => fOut = parseDate(FieldValue(fFile, fField))
        /\ FieldValue(fFile, fField) = FmNone => fOut = fFile.ctime

\* ------------------------------------------------------------------------
\* SpecScope: the files loadEntries lists
\* ------------------------------------------------------------------------

\* the basename getMarkdownFilesInFolder leaves out (the name of the
\* configuration note of the view, written here in Latin letters)
EXCLUDED_NAME == "shouji-shitu"

\* The folders and the files a vault of the check may hold.  A node has the
\* path of its folder (dir, as segments), its name and, for a file, its
\* extension.
ScopeFolders ==
    {[dir |-> <<>>, name |-> "journal", kind |-> "folder", extension |-> ""],
     [dir |-> <<"journal">>, name |-> "sub", kind |-> "folder", extension |-> ""],
     [dir |-> <<>>, name |-> "other", kind |-> "folder", extension |-> ""]}

ScopeFileChoices ==
    {[dir |-> <<>>, name |-> "a", kind |-> "file", extension |-> "md"],
     [dir |-> <<"journal">>, name |-> "b", kind |-> "file", extension |-> "md"],
     [dir |-> <<"journal">>, name |-> "c", kind |-> "file", extension |-> "png"],
     [dir |-> <<"journal">>, name |-> ".hidden", kind |-> "file", extension |-> "md"],
     [dir |-> <<"journal", "sub">>, name |-> "d", kind |-> "file", extension |-> "md"],
     [dir |-> <<"journal", "sub">>, name |-> EXCLUDED_NAME, kind |-> "file",
      extension |-> "md"],
     [dir |-> <<"other">>, name |-> "e", kind |-> "file", extension |-> "md"]}

\* the values of targetFolderPath: none, three folders, a file, nothing
TargetFolderPaths ==
    {<<>>, <<"journal">>, <<"journal", "sub">>, <<"other">>, <<"a.md">>, <<"missing">>}

\* the path of a node, as segments; a file's last segment has its extension
NodePath(node) ==
    node.dir \o <<IF node.kind = "file" /\ node.name = "a" THEN "a.md" ELSE node.name>>

\* the basename begins with a dot
StartsWithDot(name) == name = ".hidden"

\* the order of folder.children and of the vault's listing, by name
NodeOrder ==
    <<"journal", "other", "a", "sub", "b", "c", ".hidden", "d", EXCLUDED_NAME, "e">>

NodeRank(node) == CHOOSE r \in DOMAIN NodeOrder : NodeOrder[r] = node.name

NodeBefore(a, b) == NodeRank(a) < NodeRank(b)

\* the elements of a set of nodes, in the order of NodeBefore
RECURSIVE NodesInOrder(_)
NodesInOrder(nodes) ==
    IF nodes = {} THEN <<>>
    ELSE LET first == CHOOSE n \in nodes : \A m \in nodes \ {n} : NodeBefore(n, m)
         IN  <<first>> \o NodesInOrder(nodes \ {first})

\* app.vault.getAbstractFileByPath(path) in the vault with these files: the
\* node, or Null
folderByPath(files, path) ==
    LET found == {n \in ScopeFolders \cup files : NodePath(n) = path}
    IN  IF found = {} THEN [kind |-> "null"] ELSE CHOOSE n \in found : TRUE

\* folder.children
Children(files, folder) ==
    NodesInOrder({n \in ScopeFolders \cup files : n.dir = NodePath(folder)})

\* a mutant of getMarkdownFilesInFolder: the sub-folders are not entered
RECURSIVE getMarkdownFilesInFolder_flat(_, _, _)
getMarkdownFilesInFolder_flat(files, folder, i) ==
    LET children == Children(files, folder)
    IN  IF i > Len(children) THEN <<>>
        ELSE LET child == children[i]
                 here ==
                     IF child.kind = "file" /\ child.extension = "md"
                     THEN IF ~StartsWithDot(child.name) /\ child.name # EXCLUDED_NAME
                          THEN <<child>> ELSE <<>>
                     ELSE <<>>
             IN  here \o getMarkdownFilesInFolder_flat(files, folder, i + 1)

\* getMarkdownFilesInFolder(folder): the loop over folder.children from
\* the i-th child on
RECURSIVE getMarkdownFilesInFolder(_, _, _)
getMarkdownFilesInFolder(files, folder, i) ==
    LET children == Children(files, folder)
    IN  IF i > Len(children) THEN <<>>
        ELSE LET child == children[i]
                 here ==
                     IF child.kind = "file" /\ child.extension = "md"
                     THEN IF ~StartsWithDot(child.name) /\ child.name # EXCLUDED_NAME
                          THEN <<child>> ELSE <<>>
                     ELSE IF child.kind = "folder"
                     THEN getMarkdownFilesInFolder(files, child, 1)
                     ELSE <<>>
             IN  here \o getMarkdownFilesInFolder(files, folder, i + 1)

\* app.vault.getMarkdownFiles()
getMarkdownFiles(files) == NodesInOrder({n \in files : n.extension = "md"})

\* the files loadEntries lists
ListedFiles(files, target) ==
    IF target # <<>>
    THEN LET targetFolder == folderByPath(files, target)
         IN  IF targetFolder.kind = "folder"
             THEN getMarkdownFilesInFolder(files, targetFolder, 1)
             ELSE getMarkdownFiles(files)
    ELSE getMarkdownFiles(files)

InitScope ==
    /\ scFiles \in SUBSET ScopeFileChoices
    /\ scTarget \in TargetFolderPaths
    /\ scListed = <<>>
    /\ scPhase = "in"
    /\ NotScope

LoadEntriesList ==
    /\ scPhase = "in"
    /\ scListed' = ListedFiles(scFiles, scTarget)
    /\ scPhase' = "out"
    /\ UNCHANGED <<scFiles, scTarget, notScopeVars>>

NextScope == LoadEntriesList

SpecScope == InitScope /\ [][NextScope]_vars

\* path is the path of a folder that holds node, directly or through
\* sub-folders
Inside(node, path) ==
    /\ Len(node.dir) >= Len(path)
    /\ SubSeq(node.dir, 1, Len(path)) = path

\* targetFolderPath names a folder of the vault
TargetIsFolder == \E f \in ScopeFolders : NodePath(f) = scTarget

\* the Markdown files of the configured scope
ScopeFiles ==
    {n \in scFiles :
        /\ n.extension = "md"
        /\ TargetIsFolder => Inside(n, scTarget)}

\* the files the folder listing leaves out
ConfigFile(n) == StartsWithDot(n.name) \/ n.name = EXCLUDED_NAME

\* C14: a scan covers exactly the configured scope: with targetFolderPath
\* naming a folder of the vault, the Markdown files inside that folder and
\* its sub-folders and no other file; otherwise all Markdown files of the
\* vault.
C14_ScanCoversScope ==
    scPhase = "out" => SeqRange(scListed) = ScopeFiles

\* C14, amended: as above, but inside a folder the files whose basename
\* begins with a dot or is the name of the configuration note are left out.
C14_ScanCoversScopeButConfig ==
    scPhase = "out" =>
        /\ SeqRange(scListed) =
              {n \in ScopeFiles : TargetIsFolder => ~ConfigFile(n)}
        /\ \A i, j \in DOMAIN scListed : i # j => scListed[i] # scListed[j]

\* C14 witness: the folder "journal" was listed in the full vault: the note
\* of its sub-folder is listed, the note of the other folder is not, and
\* neither is the configuration note of the sub-folder.
C14_Witness ==
    /\ scPhase = "out"
    /\ scTarget = <<"journal">>
    /\ scFiles = ScopeFileChoices
    /\ \E n \in SeqRange(scListed) : n.name = "d"
    /\ \A n \in SeqRange(scListed) : n.name # "e"
    /\ \E n \in scFiles \ SeqRange(scListed) :
          ConfigFile(n) /\ Inside(n, scTarget)

\* ------------------------------------------------------------------------
\* SpecStats: the statistics of the header
\* ------------------------------------------------------------------------

\* the bounds of the check: the entries of the view and the days they and
\* today fall on
MaxStatEntries == 3

MaxStatDays == 3

\* d.setHours(0, 0, 0, 0); d.getTime(): the local midnight of the day of a
\* timestamp
Midnight(t) == LocalDate(t \div TicksPerDay)

\* calculateConsecutiveDays: the loop over sortedDates (newest first) from
\* the position i on, with the values of consecutive and currentDate
RECURSIVE ConsecutiveFrom(_, _, _, _)
ConsecutiveFrom(sortedDates, i, consecutive, currentDate) ==
    IF i > Len(sortedDates) THEN consecutive
    ELSE IF sortedDates[i] = currentDate
    THEN ConsecutiveFrom(sortedDates, i + 1, consecutive + 1, currentDate - LocalDate(1))
    ELSE IF sortedDates[i] < currentDate THEN consecutive
    ELSE ConsecutiveFrom(sortedDates, i + 1, consecutive, currentDate)

\* Array.from(dates).sort((a, b) => b - a)
SortedDates(days) ==
    [i \in 1..Cardinality(days) |->
        CHOOSE d \in days : Cardinality({x \in days : x > d}) = i - 1]

calculateConsecutiveDays(dates, today) ==
    IF Len(dates) = 0 THEN 0
    ELSE LET days == {Midnight(dates[n]) : n \in DOMAIN dates}
             sortedDates == SortedDates(days)
         IN  ConsecutiveFrom(sortedDates, 1, 0, LocalDate(today))

\* renderStats: the consecutive days, and totalEntries under the label of
\* the days written
renderStats(dates, today) ==
    [consecutiveDays |-> calculateConsecutiveDays(dates, today),
     totalDays |-> Len(dates)]

InitStats ==
    /\ stDates \in SeqsUpTo(0..(LocalDate(MaxStatDays) - 1), MaxStatEntries)
    /\ stToday \in 0..(MaxStatDays - 1)
    /\ stShown = NoStatsShown
    /\ stPhase = "in"
    /\ NotStats

RenderStats ==
    /\ stPhase = "in"
    /\ stShown' = renderStats(stDates, stToday)
    /\ stPhase' = "out"
    /\ UNCHANGED <<stDates, stToday, notStatsVars>>

NextStats == RenderStats

SpecStats == InitStats /\ [][NextStats]_vars

\* C15: the number shown as the days written is the number of distinct
\* calendar days with at least one entry: two entries of one day count as
\* one day.
C15_DaysWritten ==
    stPhase = "out" =>
        stShown.totalDays = Cardinality({stDates[n] \div TicksPerDay : n \in DOMAIN stDates})

\* ------------------------------------------------------------------------
\* SpecFolder: the view is pointed at another folder while it scans
\* ------------------------------------------------------------------------

\* the bound of the check: the folder "journal" holds the files
\* 1..JournalFolderFiles of the vault
JournalFolderFiles == 12

\* the values of targetFolderPath: "" for null (the whole vault), a folder
ViewFolders == {"", "journal"}

\* the files loadEntries lists for targetFolderPath = folder
FolderFiles(folder) ==
    IF folder = "" THEN Listing(MaxFiles) ELSE Listing(JournalFolderFiles)

InitFolder ==
    /\ vaultN = MaxFiles
    /\ InitView
    /\ targetFolderPath = ""
    /\ refreshRequested = FALSE
    /\ NotFolder

\* openFolderJournalView, the onChange of the default folder dropdown:
\* view.targetFolderPath = folder.path; await view.refresh()
FolderChange ==
    /\ \E folder \in ViewFolders \ {targetFolderPath} :
          /\ targetFolderPath' = folder
          /\ Becomes(refresh(View, FolderFiles(folder), FALSE, FALSE, 0))
    /\ refreshRequested' = TRUE
    /\ UNCHANGED <<vaultN, notFolderVars>>

\* refresh() is called for the folder the view has
FolderRefresh ==
    /\ Becomes(refresh(View, FolderFiles(targetFolderPath), FALSE, FALSE, 0))
    /\ refreshRequested' = TRUE
    /\ UNCHANGED <<vaultN, targetFolderPath, notFolderVars>>

\* the loadEntries call of refresh goes on
FolderScanStep == ScanStep("refresh")

NextFolder ==
    \/ FolderChange
    \/ FolderRefresh
    \/ FolderScanStep

SpecFolder == InitFolder /\ [][NextFolder]_vars

\* no refresh and no loadEntries is in progress
ViewIdle == ~isRefreshing /\ ~isLoading /\ Scanning = {}

\* C16: whenever no refresh or loadEntries is in progress and a refresh
\* was requested since targetFolderPath last changed, the entries of the
\* view are those of a scan of the current targetFolderPath: one entry for
\* each file of that folder but those the scan failed to read, and no
\* other.  A folder change followed by a refresh request is not lost when
\* another scan is in flight.
C16_FolderChangeNotLost ==
    (ViewIdle /\ refreshRequested) =>
        \E bad \in SUBSET Flaky :
            EntryFiles = SeqRange(FolderFiles(targetFolderPath)) \ bad

\* ------------------------------------------------------------------------
\* SpecList: the cards of the list container
\* ------------------------------------------------------------------------

\* monthSection.appendChild(card) for the entries with the indexes in
\* created: the cards of the container after them
AppendCards(cards, ents, created) ==
    [f \in 1..MaxFiles |->
        cards[f] + Cardinality({i \in created : ents[i + 1].file = f})]

\* The cards of this.listContainer after a step.  A step that calls
\* render() and gets to renderToContainer's list makes a new, empty list
\* container and loads its first page; the timer of the observer loads a
\* page into the container there is; any other step leaves the cards.
CardsAfterRender ==
    listCards' = IF loadMore'.kind \in {"page", "throw"}
                 THEN AppendCards(NoCards, entries', loadMore'.rendered)
                 ELSE listCards

CardsAfterTimer ==
    listCards' = IF loadMore'.kind \in {"page", "throw"}
                 THEN AppendCards(listCards, entries', loadMore'.rendered)
                 ELSE listCards

InitList ==
    /\ vaultN = MaxFiles
    /\ InitView
    /\ listCards = NoCards
    /\ NotList

\* refresh() is called
ListRefresh ==
    /\ Becomes(refresh(View, Listing(vaultN), FALSE, FALSE, 0))
    /\ CardsAfterRender
    /\ UNCHANGED <<vaultN, notListVars>>

\* the reads of the batch that the loadEntries call of refresh awaits are
\* over; after the last batch refresh goes on with render() and saveState()
ListScanStep ==
    /\ pc["refresh"] = "scan"
    /\ \E bad \in SUBSET (Flaky \cap (scan["refresh"].idx + 1)..(scan["refresh"].idx + BATCH_SIZE)
                                \cap SeqRange(scan["refresh"].files)) :
          LET s1 == loadEntriesStep(View, "refresh", bad)
          IN  Becomes(IF s1.pc["refresh"] = "scan" THEN s1
                      ELSE AfterLoad(s1, "refresh", FALSE, 0))
    /\ CardsAfterRender
    /\ UNCHANGED <<vaultN, notListVars>>

\* this.loadMoreObserver.observe(trigger)
ListObserveTrigger ==
    /\ trigger = "pending"
    /\ loadMoreObserver
    /\ Becomes([View EXCEPT !.trigger = "observed"])
    /\ UNCHANGED <<vaultN, listCards, notListVars>>

\* the observer reports the trigger as intersecting
ListObserverFires ==
    /\ loadMoreObserver
    /\ trigger = "observed"
    /\ screen = "list"
    /\ ~isLoadingMore
    /\ ~lmTimer
    /\ Becomes([View EXCEPT !.lmTimer = TRUE])
    /\ UNCHANGED <<vaultN, listCards, notListVars>>

\* the timer of the observer callback
ListLoadMoreTimer ==
    /\ lmTimer
    /\ \E s \in {[View EXCEPT !.lmTimer = FALSE]} :
          Becomes(IF ~isLoadingMore /\ hasList THEN loadMoreEntries(s, 0) ELSE s)
    /\ CardsAfterTimer
    /\ UNCHANGED <<vaultN, notListVars>>

NextList ==
    \/ ListRefresh
    \/ ListScanStep
    \/ ListObserveTrigger
    \/ ListObserverFires
    \/ ListLoadMoreTimer

SpecList == InitList /\ [][NextList]_vars

\* C17: at every moment the list container holds at most one card for
\* each file, under every interleaving of loadEntries, render and the
\* loadMoreEntries calls of the observer's timer.
C17_OneCardPerFile ==
    \A f \in 1..MaxFiles : listCards[f] <= 1

\* ------------------------------------------------------------------------
\* SpecLazy: the list container with timers that fire and an observer that
\* reports its trigger
\* ------------------------------------------------------------------------

\* The steps of SpecList, where a pending timer fires in the end and the
\* observer reports the trigger it observes while the list is on screen.
\* Nothing makes refresh() be called, nor the reads of a scan end.
SpecLazy ==
    /\ InitList
    /\ [][NextList]_vars
    /\ WF_vars(ListObserveTrigger)
    /\ WF_vars(ListObserverFires)
    /\ WF_vars(ListLoadMoreTimer)

\* the indexes of the entries without a card
Unrendered == (0..(Len(entries) - 1)) \ renderedEntries

\* the list is on screen and no scan is going on
ListShown == screen = "list" /\ ViewIdle

MaxSortFiles == 4

MaxSortDays == 2

\* the orders in which the vault may list the files
SortListings ==
    {l \in [1..MaxSortFiles -> 1..MaxSortFiles] :
        \A i, j \in 1..MaxSortFiles : i # j => l[i] # l[j]}

\* the entries pushed for the files in the order of the listing, each file
\* with its date
InitSort ==
    /\ \E l \in SortListings :
       \E dates \in [1..MaxSortFiles -> {LocalDate(d) : d \in 1..MaxSortDays}] :
          soEntries = [i \in 1..MaxSortFiles |-> [file |-> l[i], date |-> dates[l[i]]]]
    /\ soOut = <<>>
    /\ soPhase = "in"
    /\ NotSort

\* this.entries.sort(...)
SortCall ==
    /\ soPhase = "in"
    /\ soOut' = SortEntries(soEntries)
    /\ soPhase' = "out"
    /\ UNCHANGED <<soEntries, notSortVars>>

NextSort == SortCall

SpecSort == InitSort /\ [][NextSort]_vars

\* a comes before b in the documented order: newer date; equal dates, newer
\* creation time; both equal, greater path
DocumentedBefore(a, b) ==
    \/ a.date > b.date
    \/ /\ a.date = b.date
       /\ FileOf(a.file).ctime > FileOf(b.file).ctime
    \/ /\ a.date = b.date
       /\ FileOf(a.file).ctime = FileOf(b.file).ctime
       /\ a.file > b.file

MaxRestoreEntries == 2

\* the folders of the restore check
RestoreFolders == {"journal", "notes"}

\* the states the host may hold for the view when it is constructed
SavedStates ==
    {NoState} \cup
    [targetFolderPath : RestoreFolders \cup {"null"}, hasLoaded : BOOLEAN,
     saved : {TRUE}]

\* the fields of the view the restore logic reads and writes
RestoreView ==
    [stateRestored |-> rsStateRestored, targetFolderPath |-> rsTargetFolderPath,
     entries |-> rsEntries, screen |-> rsScreen, reloadTimer |-> rsReloadTimer,
     viewState |-> rsViewState, restoredOnce |-> rsRestoredOnce, call |-> NoCall]

RestoreBecomes(r) ==
    /\ rsStateRestored' = r.stateRestored
    /\ rsTargetFolderPath' = r.targetFolderPath
    /\ rsEntries' = r.entries
    /\ rsScreen' = r.screen
    /\ rsReloadTimer' = r.reloadTimer
    /\ rsViewState' = r.viewState
    /\ rsRestoredOnce' = r.restoredOnce
    /\ rsCall' = r.call
    /\ rsPhase' = rsPhase

\* getState(): { targetFolderPath, hasLoaded: this.entries.length > 0 }
getState(r) ==
    [targetFolderPath |-> r.targetFolderPath, hasLoaded |-> r.entries > 0,
     saved |-> TRUE]

\* setState(state): returns at once when stateRestored is set; else sets it
\* and, for a state with hasLoaded, takes the state's folder, empties
\* contentEl and schedules the reload; for any other state renders the
\* empty state.
setStateCall(r, state) ==
    IF r.stateRestored
    THEN [r EXCEPT !.call = [made |-> TRUE, once |-> r.restoredOnce,
                             effect |-> "none",
                             targetBefore |-> r.targetFolderPath,
                             targetAfter |-> r.targetFolderPath]]
    ELSE IF state.saved /\ state.hasLoaded
    THEN [r EXCEPT !.stateRestored = TRUE,
                   !.restoredOnce = TRUE,
                   !.targetFolderPath = state.targetFolderPath,
                   !.screen = "blank",
                   !.reloadTimer = TRUE,
                   !.call = [made |-> TRUE, once |-> r.restoredOnce,
                             effect |-> "reload",
                             targetBefore |-> r.targetFolderPath,
                             targetAfter |-> state.targetFolderPath]]
    ELSE [r EXCEPT !.stateRestored = TRUE,
                   !.restoredOnce = TRUE,
                   !.screen = "empty",
                   !.call = [made |-> TRUE, once |-> r.restoredOnce,
                             effect |-> "empty",
                             targetBefore |-> r.targetFolderPath,
                             targetAfter |-> r.targetFolderPath]]

\* saveState(): clears stateRestored, hands getState() to
\* leaf.setViewState, sets stateRestored back.  The host is not part of the
\* repository: it calls setState(newState) before leaf.setViewState returns
\* (inside) or it does not.
saveStateCall(r, inside) ==
    LET newState == getState(r)
        wasRestored == r.stateRestored
        cleared == [r EXCEPT !.stateRestored = FALSE, !.viewState = newState]
        called == IF inside THEN setStateCall(cleared, newState) ELSE cleared
    IN  [called EXCEPT !.stateRestored = wasRestored]

\* render() after loadEntries: the list, or the text for no entries
RestoreRender(r) ==
    [r EXCEPT !.screen = IF r.entries = 0 THEN "noentries" ELSE "list"]

\* refresh(): loadEntries, render, saveState
RestoreRefreshCall(r, n, inside) ==
    saveStateCall(RestoreRender([r EXCEPT !.entries = n]), inside)

\* the view after its construction and onOpen: nothing restored, no folder,
\* no entries; the host holds a saved state or none
InitRestore ==
    /\ rsStateRestored = FALSE
    /\ rsTargetFolderPath = "null"
    /\ rsEntries = 0
    /\ rsScreen = "blank"
    /\ rsReloadTimer = FALSE
    /\ rsViewState \in SavedStates
    /\ rsRestoredOnce = FALSE
    /\ rsCall = NoCall
    /\ rsPhase = "on"
    /\ NotRestore

\* the host calls setState with the state the leaf holds
HostSetState ==
    /\ rsPhase = "on"
    /\ RestoreBecomes(setStateCall(RestoreView, rsViewState))
    /\ UNCHANGED notRestoreVars

\* the timer of setState fires: loadEntries and render
RestoreReloadTimer ==
    /\ rsPhase = "on"
    /\ rsReloadTimer
    /\ \E n \in 0..MaxRestoreEntries :
          RestoreBecomes(RestoreRender([RestoreView EXCEPT !.reloadTimer = FALSE,
                                                           !.entries = n]))
    /\ UNCHANGED notRestoreVars

\* refresh() is called: by the command, by a file event, by the button
RestoreRefresh ==
    /\ rsPhase = "on"
    /\ \E n \in 0..MaxRestoreEntries, inside \in BOOLEAN :
          RestoreBecomes(RestoreRefreshCall(RestoreView, n, inside))
    /\ UNCHANGED notRestoreVars

\* openFolderJournalView(folder): sets the folder of the view and calls
\* refresh()
RestoreOpenFolder ==
    /\ rsPhase = "on"
    /\ \E folder \in RestoreFolders, n \in 0..MaxRestoreEntries, inside \in BOOLEAN :
          RestoreBecomes(RestoreRefreshCall(
              [RestoreView EXCEPT !.targetFolderPath = folder], n, inside))
    /\ UNCHANGED notRestoreVars

NextRestore ==
    \/ HostSetState
    \/ RestoreReloadTimer
    \/ RestoreRefresh
    \/ RestoreOpenFolder

SpecRestore == InitRestore /\ [][NextRestore]_vars

\* C20: the restore logic of setState runs at most once per view: a
\* setState call made after a setState call has set stateRestored, the
\* calls the host makes in answer to the view's saveState among them, leaves
\* targetFolderPath as it was, does not render the empty state and schedules
\* no reload.
C20_RestoreRunsOnce ==
    (rsCall.made /\ rsCall.once) =>
        /\ rsCall.effect = "none"
        /\ rsCall.targetAfter = rsCall.targetBefore

\* ------------------------------------------------------------------------
\* SpecQuiesce: one refresh() and what follows from it
\* ------------------------------------------------------------------------

\* the loadEntries calls the check counts
MaxScans == 5

\* the timers a step leaves pending: one more when its setState call has
\* scheduled the reload
TimersAfter(r, pending) ==
    IF r.call.made /\ r.call.effect = "reload" THEN pending + 1 ELSE pending

\* the callback of the timer of setState: loadEntries and render
ReloadCall_saves(r, n) ==
    saveStateCall(RestoreRender([r EXCEPT !.entries = n]), TRUE)

ReloadCall(r, n) ==
    RestoreRender([r EXCEPT !.entries = n])

\* the view after its construction, no refresh() called yet
InitQuiesce ==
    /\ rsStateRestored = FALSE
    /\ rsTargetFolderPath = "null"
    /\ rsEntries = 0
    /\ rsScreen = "blank"
    /\ rsReloadTimer = FALSE
    /\ rsViewState \in SavedStates
    /\ rsRestoredOnce = FALSE
    /\ rsCall = NoCall
    /\ rsPhase = "on"
    /\ quRefreshes = 0
    /\ quScans = 0
    /\ quTimers = 0
    /\ quPhase = "on"
    /\ NotQuiesce

\* what a step of the check makes of the view and of the timers
QuiesceBecomes(r, scans) ==
    /\ RestoreBecomes([r EXCEPT !.reloadTimer = TimersAfter(r, quTimers) > 0])
    /\ quTimers' = TimersAfter(r, quTimers)
    /\ quScans' = quScans + scans
    /\ quPhase' = quPhase

\* the host calls setState with the state the leaf holds
QuiesceHostSetState ==
    /\ quPhase = "on"
    /\ QuiesceBecomes(setStateCall(RestoreView, rsViewState), 0)
    /\ UNCHANGED <<quRefreshes, notQuiesceVars>>

\* the user's one refresh(): loadEntries, render, saveState
QuiesceRefresh ==
    /\ quPhase = "on"
    /\ quRefreshes = 0
    /\ \E n \in 0..MaxRestoreEntries, inside \in BOOLEAN :
          QuiesceBecomes(RestoreRefreshCall(RestoreView, n, inside), 1)
    /\ quRefreshes' = 1
    /\ UNCHANGED notQuiesceVars

\* a timer of setState fires
QuiesceReloadTimer ==
    /\ quPhase = "on"
    /\ quTimers > 0
    /\ quScans < MaxScans
    /\ \E n \in 0..MaxRestoreEntries :
          LET r == ReloadCall(RestoreView, n)
          IN  /\ RestoreBecomes([r EXCEPT !.reloadTimer = TimersAfter(r, quTimers - 1) > 0])
              /\ quTimers' = TimersAfter(r, quTimers - 1)
    /\ quScans' = quScans + 1
    /\ UNCHANGED <<quRefreshes, quPhase, notQuiesceVars>>

NextQuiesce ==
    \/ QuiesceHostSetState
    \/ QuiesceRefresh
    \/ QuiesceReloadTimer

\* the timers fire in the end
SpecQuiesce ==
    /\ InitQuiesce
    /\ [][NextQuiesce]_vars
    /\ WF_vars(QuiesceReloadTimer)

\* the loadEntries calls one refresh() can cause: its own, and one for each
\* of the two runs of the restore logic (at start-up and inside saveState)
ScansOfOneRefresh == 1 + 2

\* C21: one refresh() causes a bounded number of scans: saveState may make
\* the host call setState, which may schedule loadEntries and render, and
\* that callback calls neither saveState nor refresh; so no more than
\* ScansOfOneRefresh scans are ever made, and in the end no timer is
\* pending and the view stays as it is.
C21_RefreshQuiesces ==
    /\ [](quScans <= ScansOfOneRefresh)
    /\ [][quScans' > quScans => (quRefreshes' > quRefreshes \/ quTimers > 0)]_vars
    /\ <>[](quTimers = 0)

\* C21 witness: the refresh was made, the host has called setState inside
\* saveState and once more, both timers have fired and none is pending.
C21_Witness ==
    /\ quRefreshes = 1
    /\ quScans = ScansOfOneRefresh
    /\ quTimers = 0

\* ------------------------------------------------------------------------
\* SpecBatch: the loadEntryMetadata calls of one loadEntries call
\* ------------------------------------------------------------------------

\* most files of the batch check
MaxBatchFiles == 16

\* the loadEntryMetadata calls that do not finish at once: the call of a
\* file that is not handled from the metadata cache waits for vault.read
AwaitsRead(n) == {id \in 1..n : ~FastPath(FileOf(id))}

\* the files of the batch the loop waits for
CurrentBatch == (baIndex + 1)..Min2(baIndex + BATCH_SIZE, baFiles)

\* loadEntries is about to be called on a vault of some size
InitBatch ==
    /\ baFiles \in 0..MaxBatchFiles
    /\ baInFlight = {}
    /\ baIndex = 0
    /\ baPhase = "idle"
    /\ NotBatch

\* loadEntries up to its first await: for (const file of files)
\* entryPromises.push(this.loadEntryMetadata(file).catch(...)) calls
\* loadEntryMetadata for every file; the batch loop then waits for the
\* first batch
BatchLoadEntries ==
    /\ baPhase = "idle"
    /\ baInFlight' = AwaitsRead(baFiles)
    /\ baIndex' = 0
    /\ baPhase' = IF baFiles = 0 THEN "done" ELSE "await"
    /\ UNCHANGED <<baFiles, notBatchVars>>

\* the read of a file ends and its loadEntryMetadata call finishes
BatchReadEnds ==
    /\ baPhase \in {"await", "done"}
    /\ \E f \in baInFlight : baInFlight' = baInFlight \ {f}
    /\ UNCHANGED <<baFiles, baIndex, baPhase, notBatchVars>>

\* await Promise.all(batch) resumes when every promise of the batch has
\* settled: the results are pushed and the loop goes on with the next batch
BatchResume ==
    /\ baPhase = "await"
    /\ CurrentBatch \cap baInFlight = {}
    /\ baIndex' = baIndex + BATCH_SIZE
    /\ baPhase' = IF baIndex + BATCH_SIZE >= baFiles THEN "done" ELSE "await"
    /\ UNCHANGED <<baFiles, baInFlight, notBatchVars>>

NextBatch ==
    \/ BatchLoadEntries
    \/ BatchReadEnds
    \/ BatchResume

SpecBatch == InitBatch /\ [][NextBatch]_vars

\* C22: during loadEntries at most BATCH_SIZE loadEntryMetadata calls are
\* in flight, and no call of a later batch has started while the loop
\* waits for a batch: the calls in flight are calls of the current batch.
C22_BatchedConcurrency ==
    baPhase = "await" =>
        /\ Cardinality(baInFlight) <= BATCH_SIZE
        /\ baInFlight \subseteq CurrentBatch

\* ------------------------------------------------------------------------
\* SpecMonths: the month sections of the list container
\* ------------------------------------------------------------------------

\* renderEntriesBatch(container, startIndex, endIndex) on the sections of
\* the container: for each month of the batch, newest first, the section
\* with that data-month is looked up and, when there is none, created at
\* the end of the container; the cards of the month's entries that are not
\* rendered yet are appended to it in the order of the batch.
renderEntriesBatch(sections, ents, startIndex, endIndex, rendered) ==
    LET batch == startIndex..(endIndex - 1)
        months == {MonthOf(ents[i + 1].date) : i \in batch}
        have == {sections[k].month : k \in DOMAIN sections}
        sortedNew == SortedDates(months \ have)
        withNew == sections \o
                   [k \in DOMAIN sortedNew |-> [month |-> sortedNew[k], cards |-> <<>>]]
        Found(m) == Min({k \in DOMAIN withNew : withNew[k].month = m})
        InMonth(m) ==
            LET Is(e) == MonthOf(e.date) = m
                indexes == [k \in 1..(endIndex - startIndex) |-> startIndex + k - 1]
                NotRendered(i) == i \notin rendered
                fresh == SelectSeq(indexes, NotRendered)
            IN  SelectSeq([k \in DOMAIN fresh |-> ents[fresh[k] + 1]], Is)
    IN  [k \in DOMAIN withNew |->
            IF withNew[k].month \in months /\ k = Found(withNew[k].month)
            THEN [withNew[k] EXCEPT !.cards = @ \o InMonth(withNew[k].month)]
            ELSE withNew[k]]

\* The sections of this.listContainer after a step.  render() makes a new,
\* empty list container and loads its first page; the timer of the observer
\* loads the page currentPage into the container there is.
SectionsAfterRender ==
    listSections' =
        IF loadMore'.kind = "page"
        THEN renderEntriesBatch(<<>>, entries', 0,
                                Min2(ITEMS_PER_PAGE, Len(entries')), {})
        ELSE listSections

SectionsAfterTimer ==
    listSections' =
        IF loadMore'.kind = "page"
        THEN renderEntriesBatch(listSections, entries,
                                currentPage * ITEMS_PER_PAGE,
                                Min2(currentPage * ITEMS_PER_PAGE + ITEMS_PER_PAGE,
                                     Len(entries)),
                                renderedEntries)
        ELSE listSections

InitMonths ==
    /\ vaultN = MaxFiles
    /\ InitView
    /\ listSections = <<>>
    /\ NotMonths

\* refresh() is called
MonthsRefresh ==
    /\ Becomes(refresh(View, Listing(vaultN), FALSE, FALSE, 0))
    /\ SectionsAfterRender
    /\ UNCHANGED <<vaultN, notMonthsVars>>

\* the reads of the batch that the loadEntries call of refresh awaits are
\* over; after the last batch refresh goes on with render() and saveState()
MonthsScanStep ==
    /\ pc["refresh"] = "scan"
    /\ \E bad \in SUBSET (Flaky \cap (scan["refresh"].idx + 1)..(scan["refresh"].idx + BATCH_SIZE)
                                \cap SeqRange(scan["refresh"].files)) :
          LET s1 == loadEntriesStep(View, "refresh", bad)
          IN  Becomes(IF s1.pc["refresh"] = "scan" THEN s1
                      ELSE AfterLoad(s1, "refresh", FALSE, 0))
    /\ SectionsAfterRender
    /\ UNCHANGED <<vaultN, notMonthsVars>>

\* this.loadMoreObserver.observe(trigger)
MonthsObserveTrigger ==
    /\ trigger = "pending"
    /\ loadMoreObserver
    /\ Becomes([View EXCEPT !.trigger = "observed"])
    /\ UNCHANGED <<vaultN, listSections, notMonthsVars>>

\* the observer reports the trigger as intersecting
MonthsObserverFires ==
    /\ loadMoreObserver
    /\ trigger = "observed"
    /\ screen = "list"
    /\ ~isLoadingMore
    /\ ~lmTimer
    /\ Becomes([View EXCEPT !.lmTimer = TRUE])
    /\ UNCHANGED <<vaultN, listSections, notMonthsVars>>

\* the timer of the observer callback
MonthsLoadMoreTimer ==
    /\ lmTimer
    /\ \E s \in {[View EXCEPT !.lmTimer = FALSE]} :
          Becomes(IF ~isLoadingMore /\ hasList THEN loadMoreEntries(s, 0) ELSE s)
    /\ SectionsAfterTimer
    /\ UNCHANGED <<vaultN, notMonthsVars>>

NextMonths ==
    \/ MonthsRefresh
    \/ MonthsScanStep
    \/ MonthsObserveTrigger
    \/ MonthsObserverFires
    \/ MonthsLoadMoreTimer

SpecMonths == InitMonths /\ [][NextMonths]_vars

\* the entries of the cards of the container, in the order of the document
RECURSIVE CardsFrom(_, _)
CardsFrom(sections, k) ==
    IF k > Len(sections) THEN <<>>
    ELSE sections[k].cards \o CardsFrom(sections, k + 1)

AllCards == CardsFrom(listSections, 1)

\* one section per month key, the sections newest month first, every card
\* in the section of its entry's month, the cards in the order of the
\* entries (newest date first, then newest creation time, then path)
SectionsInOrder ==
    /\ \A j, k \in DOMAIN listSections :
          j < k => listSections[j].month > listSections[k].month
    /\ \A k \in DOMAIN listSections :
          \A n \in DOMAIN listSections[k].cards :
             MonthOf(listSections[k].cards[n].date) = listSections[k].month
    /\ \A n \in 1..(Len(AllCards) - 1) : EntryBefore(AllCards[n], AllCards[n + 1])

\* C23: in the rendered list, after any number of loaded pages, there is at
\* most one month section per month key, the sections are in descending
\* month order, every card is in the section of its entry's month, and the
\* cards within and across sections follow the order of the entries.
C23_MonthSections == SectionsInOrder

\* while no scan is in progress the list on screen is in that order and its
\* cards are the entries of the pages loaded, one card each
SectionsInOrderAtRest ==
    (ViewIdle /\ screen = "list") =>
        /\ SectionsInOrder
        /\ AllCards = SubSeq(entries, 1, Min2(currentPage * ITEMS_PER_PAGE, Len(entries)))

\* ------------------------------------------------------------------------
\* SpecConfig: the file createSubFileJournalView creates, and the scan
\* ------------------------------------------------------------------------

\* A name is a sequence of pieces of text; two names are the same string
\* when they are the same sequence.  The folders of the check: two plain
\* names and one that begins with a dot.
ConfigFolders == {<<"journal">>, <<"notes">>, <<".", "archive">>}

\* the notes a folder may hold before the menu item is used
ConfigNotes == {<<"a">>, <<".", "hidden">>, <<EXCLUDED_NAME>>, <<"2026-01-12">>}

\* viewFileName without its extension: `${folder.name}<EXCLUDED_NAME>`
viewFileName(folder) == folder \o <<EXCLUDED_NAME>>

\* child.basename.startsWith('.') || child.basename === EXCLUDED_NAME
shouldExclude(basename) ==
    \/ basename # <<>> /\ basename[1] = "."
    \/ basename = <<EXCLUDED_NAME>>

\* the folder as the user finds it; the view file of an earlier use of the
\* menu item may be there
InitConfig ==
    /\ cfFolder \in ConfigFolders
    /\ \E notes \in SUBSET ConfigNotes, old \in BOOLEAN :
          cfNotes = notes \cup (IF old THEN {viewFileName(cfFolder)} ELSE {})
    /\ cfEntries = {}
    /\ cfPhase = "menu"
    /\ NotConfig

\* createSubFileJournalView(folder) up to openFolderJournalView: the file
\* is created unless a file is at its path
createSubFileJournalView ==
    /\ cfPhase = "menu"
    /\ cfNotes' = cfNotes \cup {viewFileName(cfFolder)}
    /\ cfPhase' = "created"
    /\ UNCHANGED <<cfFolder, cfEntries, notConfigVars>>

\* the scan of the folder by the view that openFolderJournalView refreshes,
\* and every later scan: an entry for each file getMarkdownFilesInFolder
\* lists (a note without any date is dated by its creation time)
ConfigScan ==
    /\ cfPhase \in {"created", "scanned"}
    /\ cfEntries' = {n \in cfNotes : ~shouldExclude(n)}
    /\ cfPhase' = "scanned"
    /\ UNCHANGED <<cfFolder, cfNotes, notConfigVars>>

\* a note is added to the folder or removed from it
ConfigNoteChange ==
    /\ cfPhase = "scanned"
    /\ \E n \in ConfigNotes :
          cfNotes' = IF n \in cfNotes THEN cfNotes \ {n} ELSE cfNotes \cup {n}
    /\ UNCHANGED <<cfFolder, cfEntries, cfPhase, notConfigVars>>

NextConfig ==
    \/ createSubFileJournalView
    \/ ConfigScan
    \/ ConfigNoteChange

SpecConfig == InitConfig /\ [][NextConfig]_vars

\* C24: after createSubFileJournalView has created the view file of a
\* folder, a scan of that folder makes no entry of that file.
C24_ViewFileExcluded ==
    cfPhase = "scanned" => viewFileName(cfFolder) \notin cfEntries

\* ------------------------------------------------------------------------
\* SpecNote: createNewNote and the path it creates the note at
\* ------------------------------------------------------------------------

\* the days and the minutes of a day of the new-note check
MaxNoteDay == 2

MaxNoteMinute == 2

\* if (counter > 100) break
MAX_EXISTS_LOOPS == 100

\* `${year}-${month}-${day}.md` in the target folder
DayPath(today) == [day |-> today.day, time |-> 0 - 1]

\* `${year}-${month}-${day}-${timeStr}.md` in the target folder, timeStr
\* being the hour and the minute of today
StampedPath(today) == [day |-> today.day, time |-> today.minute]

\* one test of while (await exists(finalPath)) and, when it holds, one pass
\* through the body: finalPath becomes the stamped path, counter grows,
\* and the loop is left when counter is over MAX_EXISTS_LOOPS
LoopStep(files, today, finalPath, counter) ==
    IF finalPath \in files
    THEN [finalPath |-> StampedPath(today), counter |-> counter + 1,
          again |-> ~(counter + 1 > MAX_EXISTS_LOOPS)]
    ELSE [finalPath |-> finalPath, counter |-> counter, again |-> FALSE]

\* an empty folder, no call running
InitNote ==
    /\ nnFiles = {}
    /\ nnNow = [day |-> 1, minute |-> 0]
    /\ nnToday = [day |-> 0, minute |-> 0]
    /\ nnFinalPath = NoPath
    /\ nnCounter = 0
    /\ nnCreated = "none"
    /\ nnPhase = "idle"
    /\ NotNote

\* createNewNote() up to the first await of its loop
CreateNewNote ==
    /\ nnPhase = "idle"
    /\ nnToday' = nnNow
    /\ nnFinalPath' = DayPath(nnNow)
    /\ nnCounter' = 1
    /\ nnCreated' = "none"
    /\ nnPhase' = "exists"
    /\ UNCHANGED <<nnFiles, nnNow, notNoteVars>>

\* adapter.exists(finalPath) answers
ExistsAnswers ==
    /\ nnPhase = "exists"
    /\ LET step == LoopStep(nnFiles, nnToday, nnFinalPath, nnCounter)
       IN  /\ nnFinalPath' = step.finalPath
           /\ nnCounter' = step.counter
           /\ nnPhase' = IF step.again THEN "exists" ELSE "create"
    /\ UNCHANGED <<nnFiles, nnNow, nnToday, nnCreated, notNoteVars>>

\* vault.create(finalPath, fileContent): throws when a file is at the path
VaultCreate ==
    /\ nnPhase = "create"
    /\ nnCreated' = IF nnFinalPath \in nnFiles THEN "throws" ELSE "created"
    /\ nnFiles' = nnFiles \cup {nnFinalPath}
    /\ nnPhase' = "idle"
    /\ UNCHANGED <<nnNow, nnToday, nnFinalPath, nnCounter, notNoteVars>>

\* a minute passes, or the day ends
NoteClock ==
    /\ nnPhase # "off"
    /\ \/ /\ nnNow.minute < MaxNoteMinute
          /\ nnNow' = [nnNow EXCEPT !.minute = @ + 1]
       \/ /\ nnNow.day < MaxNoteDay
          /\ nnNow' = [day |-> nnNow.day + 1, minute |-> 0]
    /\ UNCHANGED <<nnFiles, nnToday, nnFinalPath, nnCounter, nnCreated, nnPhase,
                   notNoteVars>>

NextNote ==
    \/ CreateNewNote
    \/ ExistsAnswers
    \/ VaultCreate
    \/ NoteClock

SpecNote == InitNote /\ [][NextNote]_vars

\* C25: createNewNote never targets an existing file: the path it passes
\* to vault.create is the day's path or, when a file is there, the stamped
\* path, and no file exists at it; the loop of the existence check ends.
C25_NewNotePathIsFree ==
    /\ nnPhase = "create" =>
          /\ nnFinalPath \in {DayPath(nnToday), StampedPath(nnToday)}
          /\ nnFinalPath \notin nnFiles
    /\ nnCounter <= MAX_EXISTS_LOOPS + 1

\* ------------------------------------------------------------------------
\* SpecClose: onClose, the timers of the view and the plugin's reference
\* ------------------------------------------------------------------------

\* the timers of a view: the 100 ms delay of the observer callback, the
\* 300 ms delay before the trigger is observed, the 100 ms reload of
\* setState, the 1000 ms refresh of createNewNote
CloseTimers == {"loadMore", "observe", "restore", "newNote"}

\* what refresh() calls on the view
RefreshCalls == {"loadEntries", "render", "saveState"}

\* the callback of a timer: what it calls on the view
TimerCallback(t, observer, list) ==
    IF t = "loadMore" THEN (IF list THEN {"loadMoreEntries"} ELSE {})
    ELSE IF t = "observe" THEN (IF observer THEN {"observe"} ELSE {})
    ELSE IF t = "restore" THEN {"loadEntries", "render"}
    ELSE RefreshCalls

\* the view after registerView's factory and onOpen
InitClose ==
    /\ clClosed = FALSE
    /\ clTimers = {}
    /\ clObserver = FALSE
    /\ clList = FALSE
    /\ clPluginView = TRUE
    /\ clRan = {}
    /\ clPhase = "on"
    /\ NotClose

\* the open view schedules a timer: setState the reload, the observer
\* callback the load-more delay, createNewNote the delayed refresh
CloseSchedule ==
    /\ clPhase = "on"
    /\ ~clClosed
    /\ \E t \in {"restore", "newNote"} \cup (IF clObserver THEN {"loadMore"} ELSE {}) :
          clTimers' = clTimers \cup {t}
    /\ clRan' = {}
    /\ UNCHANGED <<clClosed, clObserver, clList, clPluginView, clPhase, notCloseVars>>

\* render() of the list: a new list container, a new observer and the
\* timer that will observe the trigger
CloseRender(ran) ==
    /\ clList' = ("render" \in ran \/ clList)
    /\ clObserver' = ("render" \in ran \/ clObserver)

\* a timer fires
CloseTimerFires ==
    /\ clPhase = "on"
    /\ \E t \in clTimers :
          LET ran == TimerCallback(t, clObserver, clList)
          IN  /\ clRan' = ran
              /\ CloseRender(ran)
              /\ clTimers' = (clTimers \ {t}) \cup
                             (IF "render" \in ran THEN {"observe"} ELSE {})
    /\ UNCHANGED <<clClosed, clPluginView, clPhase, notCloseVars>>

\* the command 'refresh journal view': if (this.view) this.view.refresh()
CloseRefreshCommand ==
    /\ clPhase = "on"
    /\ clRan' = IF clPluginView THEN RefreshCalls ELSE {}
    /\ CloseRender(clRan')
    /\ clTimers' = clTimers \cup (IF clPluginView THEN {"observe"} ELSE {})
    /\ UNCHANGED <<clClosed, clPluginView, clPhase, notCloseVars>>

\* onClose(): the observer is disconnected and dropped, renderedEntries is
\* cleared, the state is saved
OnClose ==
    /\ clPhase = "on"
    /\ ~clClosed
    /\ clClosed' = TRUE
    /\ clObserver' = FALSE
    /\ clRan' = {"saveState"}
    /\ UNCHANGED <<clTimers, clList, clPluginView, clPhase, notCloseVars>>

\* the factory of registerView constructs another view: this.view = view
CloseNewView ==
    /\ clPhase = "on"
    /\ clClosed
    /\ clPluginView
    /\ clPluginView' = FALSE
    /\ clRan' = {}
    /\ UNCHANGED <<clClosed, clTimers, clObserver, clList, clPhase, notCloseVars>>

NextClose ==
    \/ CloseSchedule
    \/ CloseTimerFires
    \/ CloseRefreshCommand
    \/ OnClose
    \/ CloseNewView

SpecClose == InitClose /\ [][NextClose]_vars

\* C26: after onClose of a view has run, neither a pending timer nor the
\* plugin's command calls loadEntries, render or loadMoreEntries on it.
C26_NothingRunsAfterClose ==
    clClosed => clRan \cap {"loadEntries", "render", "loadMoreEntries"} = {}

\* ------------------------------------------------------------------------
\* SpecLeaf: createOrGetJournalViewLeaf and the leaves of the workspace
\* ------------------------------------------------------------------------

\* the leaves the workspace of the check can hold
MaxLeaves == 3

\* the callers of createOrGetJournalViewLeaf: activateView and
\* openFolderJournalView (from the file explorer click and from file-open)
LeafCallers == {"activateView", "openFolderJournalView"}

\* workspace.getLeavesOfType(JOURNAL_VIEW_TYPE)
getLeavesOfType(leaves) == {l \in DOMAIN leaves : leaves[l] = "journal-view"}

\* workspace.getLeaf(true): a new leaf, the first number not in use
NewLeaf(leaves) == Min({l \in DOMAIN leaves : leaves[l] = "none"})

\* createOrGetJournalViewLeaf() up to its await or its return.  The host is
\* not part of the repository: the leaf has the view type when
\* setViewState is called (typedAtOnce) or when its promise resolves.
createOrGetJournalViewLeaf(leaves, typedAtOnce) ==
    IF getLeavesOfType(leaves) # {}
    THEN [leaves |-> leaves, pc |-> "done", newLeaf |-> 0]
    ELSE LET newLeaf == NewLeaf(leaves)
         IN  [leaves |-> [leaves EXCEPT ![newLeaf] = IF typedAtOnce THEN "journal-view"
                                                   ELSE "empty"],
              pc |-> "await", newLeaf |-> newLeaf]

\* a workspace without leaves, no call running
InitLeaf ==
    /\ lfLeaves = [l \in 1..MaxLeaves |-> "none"]
    /\ lfCalls = [c \in LeafCallers |-> [pc |-> "idle", newLeaf |-> 0]]
    /\ NotLeaf

\* a caller calls createOrGetJournalViewLeaf
LeafCall ==
    /\ lfCalls # <<>>
    /\ \E c \in LeafCallers, typedAtOnce \in BOOLEAN :
          /\ lfCalls[c].pc = "idle"
          /\ \E l \in DOMAIN lfLeaves : lfLeaves[l] = "none"
          /\ LET r == createOrGetJournalViewLeaf(lfLeaves, typedAtOnce)
             IN  /\ lfLeaves' = r.leaves
                 /\ lfCalls' = [lfCalls EXCEPT ![c] = [pc |-> r.pc, newLeaf |-> r.newLeaf]]
    /\ UNCHANGED notLeafVars

\* the promise of newLeaf.setViewState resolves: the leaf shows the view
LeafResolves ==
    /\ lfCalls # <<>>
    /\ \E c \in LeafCallers :
          /\ lfCalls[c].pc = "await"
          /\ lfLeaves' = [lfLeaves EXCEPT ![lfCalls[c].newLeaf] =
                             IF @ = "none" THEN "none" ELSE "journal-view"]
          /\ lfCalls' = [lfCalls EXCEPT ![c].pc = "done"]
    /\ UNCHANGED notLeafVars

\* the caller goes on with the leaf and ends
LeafCallerEnds ==
    /\ lfCalls # <<>>
    /\ \E c \in LeafCallers :
          /\ lfCalls[c].pc = "done"
          /\ lfCalls' = [lfCalls EXCEPT ![c] = [pc |-> "idle", newLeaf |-> 0]]
    /\ UNCHANGED <<lfLeaves, notLeafVars>>

\* the user closes a leaf
LeafCloses ==
    /\ lfCalls # <<>>
    /\ \E l \in DOMAIN lfLeaves :
          /\ lfLeaves[l] = "journal-view"
          /\ lfLeaves' = [lfLeaves EXCEPT ![l] = "none"]
    /\ UNCHANGED <<lfCalls, notLeafVars>>

NextLeaf ==
    \/ LeafCall
    \/ LeafResolves
    \/ LeafCallerEnds
    \/ LeafCloses

SpecLeaf == InitLeaf /\ [][NextLeaf]_vars

\* C27: at most one leaf of the type journal-view exists, whatever the
\* interleaving of the callers of createOrGetJournalViewLeaf, also when two
\* calls overlap at the await on setViewState.
C27_OneJournalLeaf == Cardinality(getLeavesOfType(lfLeaves)) <= 1

\* ------------------------------------------------------------------------
\* SpecDelete: the delete item of a card's menu
\* ------------------------------------------------------------------------

\* the files of the delete check
MaxDeleteFiles == 4

\* the entries of a scan of the vault: its files, newest (greatest) first
EntriesOf(files) == SortedDates(files)

\* deleteEntry(entry, card): confirm(...) declined: nothing; vault.delete
\* throws: an alert; else the file is deleted and card.remove() is called
deleteEntry(view, file, confirmed, deleteThrows) ==
    IF ~confirmed THEN [view EXCEPT !.ended = "declined"]
    ELSE IF deleteThrows THEN [view EXCEPT !.ended = "failed"]
    ELSE [view EXCEPT !.vault = @ \ {file},
                      !.cards = @ \ {file},
                      !.ended = "deleted"]

\* the view after a refresh of a full vault: every entry on the first page
InitDelete ==
    /\ deVault = 1..MaxDeleteFiles
    /\ deEntries = EntriesOf(1..MaxDeleteFiles)
    /\ deRendered = 0..(MaxDeleteFiles - 1)
    /\ deCards = 1..MaxDeleteFiles
    /\ deLast = NoDelete
    /\ dePhase = "on"
    /\ NotDelete

\* the user picks the delete item of the menu of a card
DeleteItemClick ==
    /\ dePhase = "on"
    /\ \E file \in deCards, confirmed \in BOOLEAN, deleteThrows \in BOOLEAN :
          LET before == [vault |-> deVault, cards |-> deCards, entries |-> deEntries,
                         renderedEntries |-> deRendered, ended |-> "none"]
              after == deleteEntry(before, file, confirmed,
                                   deleteThrows \/ file \notin deVault)
          IN  /\ deVault' = after.vault
              /\ deCards' = after.cards
              /\ deEntries' = after.entries
              /\ deRendered' = after.renderedEntries
              /\ deLast' = [kind |-> after.ended, file |-> file,
                            changed |-> [after EXCEPT !.ended = "none"] # before]
    /\ UNCHANGED <<dePhase, notDeleteVars>>

\* refresh(): the entries of the vault as it is, rendered anew
DeleteRefresh ==
    /\ dePhase = "on"
    /\ deEntries' = EntriesOf(deVault)
    /\ deRendered' = 0..(Cardinality(deVault) - 1)
    /\ deCards' = deVault
    /\ deLast' = NoDelete
    /\ UNCHANGED <<deVault, dePhase, notDeleteVars>>

\* a file is created in the vault or deleted outside the view
DeleteVaultChange ==
    /\ dePhase = "on"
    /\ \E file \in 1..MaxDeleteFiles :
          deVault' = IF file \in deVault THEN deVault \ {file} ELSE deVault \cup {file}
    /\ deLast' = NoDelete
    /\ UNCHANGED <<deEntries, deRendered, deCards, dePhase, notDeleteVars>>

NextDelete ==
    \/ DeleteItemClick
    \/ DeleteRefresh
    \/ DeleteVaultChange

SpecDelete == InitDelete /\ [][NextDelete]_vars

\* C28: deleting an entry from its card menu keeps the view consistent with
\* the vault: a delete that is declined or fails leaves the file, the card,
\* entries and renderedEntries as they were; after a delete that succeeds
\* the card is gone and entries does not hold the deleted file.
C28_DeleteKeepsViewConsistent ==
    /\ deLast.kind \in {"declined", "failed"} => ~deLast.changed
    /\ deLast.kind = "deleted" =>
          /\ deLast.file \notin deVault
          /\ deLast.file \notin deCards
          /\ deLast.file \notin SeqRange(deEntries)

=============================================================================
